---- MODULE Spec2Model ----
(***************************************************************************)
(* protoc-gen-redact: the rule-resolution engine of the plugin.            *)
(*                                                                         *)
(* The plugin walks one proto file: processService for every service,     *)
(* processMessage for every message, processFields for every field.  A    *)
(* call of m.Fail / m.Failf logs the error and terminates the plugin       *)
(* process (protoc-gen-star's debugger exits with status 1), so the first *)
(* failure of a run is also its last step.                                 *)
(*                                                                         *)
(* Text is modelled as a sequence of string pieces; concatenation is \o.   *)
(***************************************************************************)
EXTENDS Integers, Sequences, FiniteSets, TLC

(***************************************************************************)
(* Bounds of the model.                                                    *)
(***************************************************************************)
\* largest status code fed to the validators
MaxCode == 18
\* longest custom string / bytes literal of a rule
MaxLitLen == 1
\* largest custom integer literal of a rule
MaxLit == 1
\* longest field list of a message handed to processMessage
MaxFields == 2
\* longest method list of a service built from the sample methods
MaxMethods == 2
\* longest message list of a file
MaxMessages == 2
\* longest service list of a file
MaxServices == 1
\* largest number of pieces (placeholders and literal text) of a template
MaxPieces == 3

\* longest list of imports of a file
MaxImports == 3

(***************************************************************************)
(* pgs.ProtoType and pgs.ProtoLabel.                                       *)
(***************************************************************************)
\* the zero value of pgs.ProtoType / pgs.ProtoLabel in a RuleInfo
NoProtoType == "0"
NoProtoLabel == "0"
MessageT == "message"
StringT == "string"
BytesT == "bytes"
BoolT == "bool"
EnumT == "enum"
Repeated == "repeated"
Optional == "optional"

IntKinds ==
  {"int32", "int64", "uint32", "uint64", "sint32", "sint64",
   "fixed32", "fixed64", "sfixed32", "sfixed64", "enum"}

FloatKinds == {"float", "double"}

NumericKinds == IntKinds \cup FloatKinds

ScalarKinds == NumericKinds \cup {BoolT, StringT, BytesT}

Kinds == ScalarKinds \cup {MessageT}

\* the deprecated group kind, which no field of the fields above has
GroupT == "group"

\* every pgs.ProtoType and every pgs.ProtoLabel
ProtoTypes == Kinds \cup {GroupT}

Required == "required"

ProtoLabels == {Optional, Required, Repeated}

(***************************************************************************)
(* Schema fields.  shape is "singular", "repeated" or "map"; kind is the   *)
(* declared kind of the field (of the element for a repeated field, of    *)
(* the value for a map); optional is the proto3 `optional` keyword, which *)
(* only a singular field can carry.                                        *)
(***************************************************************************)
Fields ==
  [shape : {"singular"}, kind : Kinds, optional : BOOLEAN]
    \cup [shape : {"repeated", "map"}, kind : Kinds, optional : {FALSE}]

IsMap(field) == field.shape = "map"

IsRepeated(field) == field.shape = "repeated"

IsEmbed(field) == field.shape = "singular" /\ field.kind = MessageT

\* typ.ProtoType(): a map field is a repeated map-entry message
ProtoType(field) == IF IsMap(field) THEN MessageT ELSE field.kind

ProtoLabel(field) == IF field.shape = "singular" THEN Optional ELSE Repeated

\* typ.Element() is nil for a singular field
HasElement(field) == field.shape # "singular"

ElementProtoType(field) == field.kind

ElementIsEmbed(field) == field.kind = MessageT

\* field.InOneOf() && field.OneOf().IsSynthetic()
HasExplicitOptional(field) == field.optional

\* name of the embedded message of the field or of its element, "" if none
EmbedName(field) == IF field.kind = MessageT THEN <<"pb.Profile">> ELSE <<>>

GoScalar(kind) ==
  CASE kind \in {"int32", "sint32", "sfixed32"} -> "int32"
    [] kind \in {"int64", "sint64", "sfixed64"} -> "int64"
    [] kind \in {"uint32", "fixed32"} -> "uint32"
    [] kind \in {"uint64", "fixed64"} -> "uint64"
    [] kind = "float" -> "float32"
    [] kind = "double" -> "float64"
    [] kind = BoolT -> "bool"
    [] kind = StringT -> "string"
    [] kind = BytesT -> "[]byte"
    [] kind = EnumT -> "pb.Status"
    [] OTHER -> "*pb.Profile"

\* m.ctx.Type(field).String(): the Go type of the field
GoTypeString(field) ==
  CASE field.shape = "repeated" -> <<"[]", GoScalar(field.kind)>>
    [] field.shape = "map" -> <<"map[", "string", "]", GoScalar(field.kind)>>
    [] OTHER ->
        IF field.optional /\ field.kind \notin {BytesT, MessageT}
          THEN <<"*", GoScalar(field.kind)>>
          ELSE <<GoScalar(field.kind)>>

(***************************************************************************)
(* Formatting of literals (fmt.Sprintf("%v", ...)).                        *)
(***************************************************************************)
Digit(d) ==
  CASE d = 0 -> "0" [] d = 1 -> "1" [] d = 2 -> "2" [] d = 3 -> "3"
    [] d = 4 -> "4" [] d = 5 -> "5" [] d = 6 -> "6" [] d = 7 -> "7"
    [] d = 8 -> "8" [] OTHER -> "9"

RECURSIVE Itoa(_)
Itoa(n) ==
  IF n < 0 THEN <<"-">> \o Itoa(0 - n)
  ELSE IF n < 10 THEN <<Digit(n)>>
  ELSE Itoa(n \div 10) \o <<Digit(n % 10)>>

FormatBool(b) == IF b THEN <<"true">> ELSE <<"false">>

(***************************************************************************)
(* redact.FieldRules: the decoded (redact.custom) payload.  branch names   *)
(* the populated member of the Values oneof, "nil" when none is.  num,     *)
(* flag and text hold the literal of a scalar branch; Empty/Nil/Skip the   *)
(* options of a MessageRules; Empty/Nested/Item those of an ElementRules.  *)
(* subNil marks a message/element wrapper whose sub-rule pointer is nil.   *)
(***************************************************************************)
AbsentItem == [branch |-> "absent"]

MkRule(b, n, f, t, e, nl, s, ne, it, sn) ==
  [branch |-> b, num |-> n, flag |-> f, text |-> t, Empty |-> e, Nil |-> nl,
   Skip |-> s, Nested |-> ne, Item |-> it, subNil |-> sn]

NoValuesRule ==
  MkRule("nil", 0, FALSE, <<>>, FALSE, FALSE, FALSE, FALSE, AbsentItem, FALSE)

NumberRule(k, n) ==
  MkRule(k, n, FALSE, <<>>, FALSE, FALSE, FALSE, FALSE, AbsentItem, FALSE)

BoolRule(f) ==
  MkRule(BoolT, 0, f, <<>>, FALSE, FALSE, FALSE, FALSE, AbsentItem, FALSE)

TextRule(k, t) ==
  MkRule(k, 0, FALSE, t, FALSE, FALSE, FALSE, FALSE, AbsentItem, FALSE)

MessageRule(e, nl, s) ==
  MkRule(MessageT, 0, FALSE, <<>>, e, nl, s, FALSE, AbsentItem, FALSE)

ElementRule(e, ne, it) ==
  MkRule("element", 0, FALSE, <<>>, e, FALSE, FALSE, ne, it, FALSE)

\* the backquote character, which delimits a Go raw string literal
Backquote == "BACKQUOTE"

LitChars == {"a", Backquote}

Texts == UNION {[1..n -> LitChars] : n \in 0..MaxLitLen}

ScalarRules ==
  {NumberRule(k, n) : k \in NumericKinds, n \in 0..MaxLit}
    \cup {BoolRule(f) : f \in BOOLEAN}
    \cup {TextRule(k, t) : k \in {StringT, BytesT}, t \in Texts}

MessageRules == {MessageRule(e, nl, s) : e \in BOOLEAN, nl \in BOOLEAN, s \in BOOLEAN}

\* element rules that can stand as the item of an element rule
InnerElementRules ==
  {ElementRule(e, ne, AbsentItem) : e \in BOOLEAN, ne \in BOOLEAN}
    \cup {ElementRule(FALSE, FALSE, NumberRule("int32", 0))}

ItemRules ==
  {AbsentItem, NoValuesRule} \cup ScalarRules \cup MessageRules
    \cup InnerElementRules

ElementRules ==
  {ElementRule(e, ne, it) : e \in BOOLEAN, ne \in BOOLEAN, it \in ItemRules}

\* every payload the (redact.custom) extension can decode to
FieldRules == {NoValuesRule} \cup ScalarRules \cup MessageRules \cup ElementRules

(***************************************************************************)
(* Errors: ValidationError / ErrorContext, tagged with the error class.    *)
(***************************************************************************)
MkError(c, en, ex, g, h) ==
  [class |-> c, Entity |-> en, Expected |-> ex, Got |-> g, Hint |-> h]

NoError == MkError("none", <<>>, <<>>, <<>>, <<>>)

(***************************************************************************)
(* RedactionDefaults(kind, isCollection): the default-value table.         *)
(***************************************************************************)
\* variant: every singular kind gets the placeholder of a string
RedactionDefaults_placeholder(typ, isCollection) ==
  IF isCollection THEN <<"nil">> ELSE <<"\"REDACTED\"">>

RedactionDefaults(typ, isCollection) ==
  IF isCollection THEN <<"nil">>
  ELSE CASE typ \in NumericKinds -> <<"0">>
         [] typ = BoolT -> <<"false">>
         [] typ = StringT -> <<"\"REDACTED\"">>
         [] typ = MessageT -> <<"-">>
         [] OTHER -> <<"nil">>

(***************************************************************************)
(* ToCustomRule(kind, label): the suggested spelling of a rule.            *)
(***************************************************************************)
ToCustomRule(typ, lab) ==
  IF lab = Repeated THEN <<"(redact.custom).", "element", ".*">>
  ELSE IF typ = MessageT THEN <<"(redact.custom).", "message", ".*">>
  ELSE IF typ \in ScalarKinds THEN <<"(redact.custom).", typ>>
  ELSE <<"(redact.redact)">>

(***************************************************************************)
(* RuleInformation: the (kind, label, value) triple of a rule.             *)
(***************************************************************************)
\* RuleInfo.RedactionValue is an interface{}: tag says which Go value it holds
MkValue(tg, n, f, t) == [tag |-> tg, num |-> n, flag |-> f, text |-> t]

NoValue == MkValue("nil", 0, FALSE, <<>>)

MkInfo(v, pt, pl, fl) ==
  [RedactionValue |-> v, ProtoType |-> pt, ProtoLabel |-> pl, failed |-> fl]

\* variant: the element branch does not carry the Repeated label
RuleInformation_elementUnlabelled(rules) ==
  CASE rules.branch \in NumericKinds ->
         MkInfo(MkValue("number", rules.num, FALSE, <<>>), rules.branch,
                NoProtoLabel, FALSE)
    [] rules.branch = BoolT ->
         MkInfo(MkValue("bool", 0, rules.flag, <<>>), BoolT, NoProtoLabel, FALSE)
    [] rules.branch = StringT ->
         MkInfo(MkValue("string", 0, FALSE, <<Backquote>> \o rules.text \o <<Backquote>>),
                StringT, NoProtoLabel, FALSE)
    [] rules.branch = BytesT ->
         MkInfo(MkValue("string", 0, FALSE,
                        <<"[]byte(", Backquote>> \o rules.text \o <<Backquote, ")">>),
                BytesT, NoProtoLabel, FALSE)
    [] rules.branch = MessageT ->
         MkInfo(NoValue, MessageT, NoProtoLabel, rules.subNil)
    [] rules.branch = "element" ->
         MkInfo(NoValue, NoProtoType, NoProtoLabel, rules.subNil)
    [] OTHER -> MkInfo(NoValue, NoProtoType, NoProtoLabel, TRUE)

\* variant: a string value is wrapped in double quotes
RuleInformation_quoted(rules) ==
  CASE rules.branch \in NumericKinds ->
         MkInfo(MkValue("number", rules.num, FALSE, <<>>), rules.branch,
                NoProtoLabel, FALSE)
    [] rules.branch = BoolT ->
         MkInfo(MkValue("bool", 0, rules.flag, <<>>), BoolT, NoProtoLabel, FALSE)
    [] rules.branch = StringT ->
         MkInfo(MkValue("string", 0, FALSE, <<"\"">> \o rules.text \o <<"\"">>),
                StringT, NoProtoLabel, FALSE)
    [] rules.branch = BytesT ->
         MkInfo(MkValue("string", 0, FALSE,
                        <<"[]byte(", Backquote>> \o rules.text \o <<Backquote, ")">>),
                BytesT, NoProtoLabel, FALSE)
    [] rules.branch = MessageT ->
         MkInfo(NoValue, MessageT, NoProtoLabel, rules.subNil)
    [] rules.branch = "element" ->
         MkInfo(NoValue, NoProtoType, Repeated, rules.subNil)
    [] OTHER -> MkInfo(NoValue, NoProtoType, NoProtoLabel, TRUE)

RuleInformation(rules) ==
  CASE rules.branch \in NumericKinds ->
         MkInfo(MkValue("number", rules.num, FALSE, <<>>), rules.branch,
                NoProtoLabel, FALSE)
    [] rules.branch = BoolT ->
         MkInfo(MkValue("bool", 0, rules.flag, <<>>), BoolT, NoProtoLabel, FALSE)
    [] rules.branch = StringT ->
         MkInfo(MkValue("string", 0, FALSE, <<Backquote>> \o rules.text \o <<Backquote>>),
                StringT, NoProtoLabel, FALSE)
    [] rules.branch = BytesT ->
         MkInfo(MkValue("string", 0, FALSE,
                        <<"[]byte(", Backquote>> \o rules.text \o <<Backquote, ")">>),
                BytesT, NoProtoLabel, FALSE)
    [] rules.branch = MessageT ->
         MkInfo(NoValue, MessageT, NoProtoLabel, rules.subNil)
    [] rules.branch = "element" ->
         MkInfo(NoValue, NoProtoType, Repeated, rules.subNil)
    [] OTHER -> MkInfo(NoValue, NoProtoType, NoProtoLabel, TRUE)

\* fmt.Sprintf("%v", info.RedactionValue)
FormatValue(v) ==
  CASE v.tag = "number" -> Itoa(v.num)
    [] v.tag = "bool" -> FormatBool(v.flag)
    [] v.tag = "string" -> v.text
    [] OTHER -> <<"<nil>">>

(***************************************************************************)
(* The validation layer of errors.go.                                      *)
(***************************************************************************)
FullyQualifiedName(field) == <<"user.User.", field.shape, ".", field.kind>>

\* variant: the check for element.item.element is left out
validateRules_noDepthCheck(rules, field) ==
  IF rules.branch = "nil"
    THEN MkError("InvalidAnnotation", FullyQualifiedName(field),
                 <<"redaction rule with values">>, <<"empty rule">>,
                 <<"define a value for the custom redaction rule">>)
  ELSE NoError

\* variant: the check for a rule without values is left out
validateRules_noValuesCheck(rules, field) ==
  IF /\ rules.branch = "element"
     /\ rules.Item.branch \notin {"absent", "nil"}
     /\ rules.Item.branch = "element"
    THEN MkError("NestedDepthExceeded", FullyQualifiedName(field),
                 <<"single-level element nesting">>, <<"element.item.element">>,
                 <<"nested element rules are not supported">>)
  ELSE NoError

validateRules(rules, field) ==
  IF rules.branch = "nil"
    THEN MkError("InvalidAnnotation", FullyQualifiedName(field),
                 <<"redaction rule with values">>, <<"empty rule">>,
                 <<"define a value for the custom redaction rule">>)
  ELSE IF rules.branch = MessageT /\ rules.subNil
    THEN MkError("InvalidAnnotation", FullyQualifiedName(field),
                 <<"message rule definition">>, <<"nil message rule">>,
                 <<"use (redact.custom).message.nil, .empty, or .skip">>)
  ELSE IF rules.branch = "element" /\ rules.subNil
    THEN MkError("InvalidAnnotation", FullyQualifiedName(field),
                 <<"element rule definition">>, <<"nil element rule">>,
                 <<"use (redact.custom).element.nested, .empty, or .item.*">>)
  ELSE IF /\ rules.branch = "element"
          /\ rules.Item.branch \notin {"absent", "nil"}
          /\ rules.Item.branch = "element"
    THEN MkError("NestedDepthExceeded", FullyQualifiedName(field),
                 <<"single-level element nesting">>, <<"element.item.element">>,
                 <<"nested element rules are not supported">>)
  ELSE NoError

\* variant: the hint spells the rule's kind instead of the field's
validateTypeMatch_ruleHint(field, ruleType, ruleLabel) ==
  IF ruleType # NoProtoType /\ ruleType # ProtoType(field)
    THEN MkError("TypeMismatch", <<"field ">> \o FullyQualifiedName(field),
                 <<"rule for type ", ProtoType(field)>>,
                 <<"rule for type ", ruleType>>,
                 <<"use ">> \o ToCustomRule(ruleType, ruleLabel) \o <<" instead">>)
  ELSE IF ProtoLabel(field) = Repeated /\ ruleLabel # Repeated
    THEN MkError("LabelMismatch", <<"repeated field ">> \o FullyQualifiedName(field),
                 <<"(redact.custom).", "element", ".*">>, <<"non-repeated rule">>,
                 <<"repeated fields require element rules">>)
  ELSE NoError

\* variant: the label check is left out
validateTypeMatch_noLabelCheck(field, ruleType, ruleLabel) ==
  IF ruleType # NoProtoType /\ ruleType # ProtoType(field)
    THEN MkError("TypeMismatch", <<"field ">> \o FullyQualifiedName(field),
                 <<"rule for type ", ProtoType(field)>>,
                 <<"rule for type ", ruleType>>,
                 <<"use ">> \o ToCustomRule(ProtoType(field), ProtoLabel(field))
                   \o <<" instead">>)
  ELSE NoError

validateTypeMatch(field, ruleType, ruleLabel) ==
  IF ruleType # NoProtoType /\ ruleType # ProtoType(field)
    THEN MkError("TypeMismatch", <<"field ">> \o FullyQualifiedName(field),
                 <<"rule for type ", ProtoType(field)>>,
                 <<"rule for type ", ruleType>>,
                 <<"use ">> \o ToCustomRule(ProtoType(field), ProtoLabel(field))
                   \o <<" instead">>)
  ELSE IF ProtoLabel(field) = Repeated /\ ruleLabel # Repeated
    THEN MkError("LabelMismatch", <<"repeated field ">> \o FullyQualifiedName(field),
                 <<"(redact.custom).", "element", ".*">>, <<"non-repeated rule">>,
                 <<"repeated fields require element rules">>)
  ELSE NoError

failWithInvalidType(field) ==
  MkError("IncompatibleRule", FullyQualifiedName(field),
          ToCustomRule(ProtoType(field), ProtoLabel(field)),
          <<"incompatible redaction rule type">>,
          <<"ensure the rule type matches the field type (", ProtoType(field), ")">>)

failWithNestedError(field) ==
  MkError("NestedDepthExceeded", FullyQualifiedName(field), <<>>,
          <<"nested element.item.element... is not supported - maximum nesting depth is 1">>,
          <<"(redact.custom).element.nested", "(redact.custom).element.item.*",
            "(redact.custom).element.empty">>)

\* the error of a RuleInformation call that found no usable branch
ruleInformationError(rules) ==
  MkError("InvalidAnnotation", <<>>, <<>>,
          IF rules.branch = MessageT
            THEN <<"(redact.custom).message is nil, no option defined">>
          ELSE IF rules.branch = "element"
            THEN <<"(redact.custom).element is nil, no option defined">>
          ELSE <<"Something went wrong">>, <<>>)

(***************************************************************************)
(* FieldData and the field resolver of fields.go.                          *)
(*                                                                         *)
(* A handler result is the record it was building, the error it raised     *)
(* and how it ended: "return", "fail" (m.Fail ended the process) or        *)
(* "panic" (a nil dereference, recovered by the caller's deferred          *)
(* recoverFromPanic).                                                      *)
(***************************************************************************)
MkResult(d, e, o) == [data |-> d, err |-> e, outcome |-> o]

goTypeName(pt) ==
  IF pt \in ScalarKinds \ {EnumT} THEN <<GoScalar(pt)>> ELSE <<>>

\* variant: the exception for bytes is left out
NewFieldData_optionalBytes(field) ==
  [Redact |-> FALSE,
   RedactionValue |-> <<>>,
   FieldGoType |-> goTypeName(ProtoType(field)),
   IsMap |-> IsMap(field),
   IsRepeated |-> IsRepeated(field),
   IsMessage |-> IsEmbed(field),
   IsOptional |-> HasExplicitOptional(field),
   Iterate |-> FALSE,
   NestedEmbedCall |-> FALSE,
   EmbedSkip |-> FALSE,
   EmbedMessageNameWithAlias |-> EmbedName(field)]

\* variant: the record starts with the default value of the field's kind
NewFieldData_prefilled(field) ==
  [Redact |-> FALSE,
   RedactionValue |-> RedactionDefaults(ProtoType(field), IsRepeated(field) \/ IsMap(field)),
   FieldGoType |-> goTypeName(ProtoType(field)),
   IsMap |-> IsMap(field),
   IsRepeated |-> IsRepeated(field),
   IsMessage |-> IsEmbed(field),
   IsOptional |-> HasExplicitOptional(field) /\ ProtoType(field) # BytesT,
   Iterate |-> FALSE,
   NestedEmbedCall |-> FALSE,
   EmbedSkip |-> FALSE,
   EmbedMessageNameWithAlias |-> EmbedName(field)]

NewFieldData(field) ==
  [Redact |-> FALSE,
   RedactionValue |-> <<>>,
   FieldGoType |-> goTypeName(ProtoType(field)),
   IsMap |-> IsMap(field),
   IsRepeated |-> IsRepeated(field),
   IsMessage |-> IsEmbed(field),
   IsOptional |-> HasExplicitOptional(field) /\ ProtoType(field) # BytesT,
   Iterate |-> FALSE,
   NestedEmbedCall |-> FALSE,
   EmbedSkip |-> FALSE,
   EmbedMessageNameWithAlias |-> EmbedName(field)]

\* variant: option skip does not return, it falls through to the recursion
messageRuleValue_skipFallsThrough(flData, rule) ==
  IF rule.Empty
    THEN [flData EXCEPT !.RedactionValue =
            <<"&">> \o flData.EmbedMessageNameWithAlias \o <<"{}">>]
  ELSE IF rule.Nil THEN [flData EXCEPT !.RedactionValue = <<"nil">>]
  ELSE IF rule.Skip
    THEN [flData EXCEPT !.RedactionValue = <<"nil">>, !.EmbedSkip = TRUE,
                        !.NestedEmbedCall = TRUE]
  ELSE [flData EXCEPT !.RedactionValue = <<"nil">>, !.NestedEmbedCall = TRUE]

\* variant: option skip recurses into the embedded message instead
messageRuleValue_skipRecurses(flData, rule) ==
  IF rule.Empty
    THEN [flData EXCEPT !.RedactionValue =
            <<"&">> \o flData.EmbedMessageNameWithAlias \o <<"{}">>]
  ELSE IF rule.Nil THEN [flData EXCEPT !.RedactionValue = <<"nil">>]
  ELSE [flData EXCEPT !.RedactionValue = <<"nil">>, !.NestedEmbedCall = TRUE]

\* variant: option nil is looked at before option empty
messageRuleValue_nilFirst(flData, rule) ==
  IF rule.Nil THEN [flData EXCEPT !.RedactionValue = <<"nil">>]
  ELSE IF rule.Empty
    THEN [flData EXCEPT !.RedactionValue =
            <<"&">> \o flData.EmbedMessageNameWithAlias \o <<"{}">>]
  ELSE IF rule.Skip
    THEN [flData EXCEPT !.RedactionValue = <<"nil">>, !.EmbedSkip = TRUE]
  ELSE [flData EXCEPT !.RedactionValue = <<"nil">>, !.NestedEmbedCall = TRUE]

\* the nil / empty / skip / recurse decision of a message rule
messageRuleValue(flData, rule) ==
  IF rule.Empty
    THEN [flData EXCEPT !.RedactionValue =
            <<"&">> \o flData.EmbedMessageNameWithAlias \o <<"{}">>]
  ELSE IF rule.Nil THEN [flData EXCEPT !.RedactionValue = <<"nil">>]
  ELSE IF rule.Skip
    THEN [flData EXCEPT !.RedactionValue = <<"nil">>, !.EmbedSkip = TRUE]
  ELSE [flData EXCEPT !.RedactionValue = <<"nil">>, !.NestedEmbedCall = TRUE]

\* m.ctx.Type(field).Key().String(): empty when the Go type is not a map
MapKeyString(field) == IF IsMap(field) THEN <<"string">> ELSE <<>>

\* element rule, option empty: the empty collection literal
elementEmptyValue(flData, field) ==
  IF flData.EmbedMessageNameWithAlias = <<>>
    THEN [flData EXCEPT !.RedactionValue = GoTypeString(field) \o <<"{}">>]
  ELSE IF flData.IsRepeated
    THEN [flData EXCEPT !.RedactionValue =
            <<"[]*">> \o flData.EmbedMessageNameWithAlias \o <<"{}">>]
  ELSE [flData EXCEPT !.RedactionValue =
          <<"map[">> \o MapKeyString(field) \o <<"]*">>
            \o flData.EmbedMessageNameWithAlias \o <<"{}">>]

\* variant: option nested does not dereference the element of the field
elementNestedValue_noElement(flData, field) ==
  MkResult([flData EXCEPT !.Iterate = TRUE,
                          !.RedactionValue = RedactionDefaults(field.kind, FALSE),
                          !.NestedEmbedCall = field.kind = MessageT],
           NoError, "return")

\* variant: option nested keeps the default of the collection
elementNestedValue_collectionDefault(flData, field) ==
  LET it == [flData EXCEPT !.Iterate = TRUE] IN
  IF ~HasElement(field) THEN MkResult(it, NoError, "panic")
  ELSE MkResult([it EXCEPT
                   !.RedactionValue = RedactionDefaults(ElementProtoType(field), TRUE),
                   !.NestedEmbedCall = ElementIsEmbed(field) \/ @],
                NoError, "return")

\* element rule, option nested: iterate and redact every item with defaults
elementNestedValue(flData, field) ==
  LET it == [flData EXCEPT !.Iterate = TRUE] IN
  IF ~HasElement(field) THEN MkResult(it, NoError, "panic")
  ELSE MkResult([it EXCEPT
                   !.RedactionValue = RedactionDefaults(ElementProtoType(field), FALSE),
                   !.NestedEmbedCall = ElementIsEmbed(field) \/ @],
                NoError, "return")

\* element rule, option item: iterate with the item's own rule
elementItemValue(flData, field, rules) ==
  IF rules.branch \in {"absent", "nil"} THEN MkResult(flData, NoError, "return")
  ELSE IF rules.branch = "element" /\ ~rules.subNil
    THEN MkResult(flData, failWithNestedError(field), "fail")
  ELSE LET info == RuleInformation(rules) IN
    IF info.failed THEN MkResult(flData, ruleInformationError(rules), "fail")
    ELSE IF ~HasElement(field) THEN MkResult(flData, NoError, "panic")
    ELSE IF info.ProtoType # ElementProtoType(field)
      THEN MkResult(flData, failWithInvalidType(field), "fail")
    ELSE LET it == [flData EXCEPT !.Iterate = TRUE, !.RedactionValue = <<"nil">>] IN
      IF info.ProtoType # MessageT
        THEN MkResult([it EXCEPT !.RedactionValue = FormatValue(info.RedactionValue)],
                      NoError, "return")
        ELSE MkResult(messageRuleValue(it, rules), NoError, "return")

redactedCustomValue(flData, field, fieldRules) ==
  LET info == RuleInformation(fieldRules)
      err == validateTypeMatch(field, info.ProtoType, info.ProtoLabel)
      mismatch == IF err # NoError THEN err ELSE failWithInvalidType(field)
  IN
  IF info.failed THEN MkResult(flData, ruleInformationError(fieldRules), "fail")
  ELSE IF info.ProtoType # NoProtoType /\ info.ProtoType # ProtoType(field)
    THEN MkResult(flData, mismatch, "fail")
  ELSE IF ProtoLabel(field) = Repeated /\ info.ProtoLabel # Repeated
    THEN MkResult(flData, mismatch, "fail")
  ELSE IF info.ProtoType # MessageT /\ info.ProtoLabel # Repeated
    THEN MkResult([flData EXCEPT !.RedactionValue = FormatValue(info.RedactionValue)],
                  NoError, "return")
  ELSE IF info.ProtoType = MessageT
    THEN MkResult(messageRuleValue(flData, fieldRules), NoError, "return")
  ELSE IF fieldRules.Empty
    THEN MkResult(elementEmptyValue(flData, field), NoError, "return")
  ELSE IF fieldRules.Nested THEN elementNestedValue(flData, field)
  ELSE elementItemValue(flData, field, fieldRules.Item)

(***************************************************************************)
(* The annotation of a field: redact is the bare (redact.redact) flag,     *)
(* hasCustom says whether the (redact.custom) extension is set, custom is  *)
(* its payload.                                                            *)
(***************************************************************************)
Annotations ==
  [redact : BOOLEAN, hasCustom : {FALSE}, custom : {NoValuesRule}]
    \cup [redact : BOOLEAN, hasCustom : {TRUE}, custom : FieldRules]

\* `_redact`: the read of the bare flag is commented out, it stays false
bareRedact(ann) == FALSE

prefillDefaults(flData, field) ==
  [flData EXCEPT !.Redact = TRUE,
                 !.RedactionValue =
                   RedactionDefaults(ProtoType(field),
                                     IsRepeated(field) \/ IsMap(field))]

processFields(field, ann) ==
  LET flData == NewFieldData(field)
      err == validateRules(ann.custom, field)
  IN
  IF ~ann.hasCustom THEN MkResult(flData, NoError, "return")
  ELSE IF err # NoError THEN MkResult(flData, err, "fail")
  ELSE IF ann.custom.branch = "nil"
    THEN IF ~bareRedact(ann) THEN MkResult(flData, NoError, "return")
         ELSE MkResult([prefillDefaults(flData, field) EXCEPT
                          !.NestedEmbedCall = IsEmbed(field)],
                       NoError, "return")
  ELSE redactedCustomValue(prefillDefaults(flData, field), field, ann.custom)

(***************************************************************************)
(* Messages and the message resolver.                                      *)
(***************************************************************************)
\* a message: its three options and its (field, annotation) list
MkMessage(i, n, e, fs) == [ignored |-> i, nil |-> n, empty |-> e, fields |-> fs]

\* variant: the conflict is only seen when all three options are set
validateMessage_allThree(msg) ==
  IF msg.ignored /\ msg.nil /\ msg.empty
    THEN MkError("ConflictingMessageOptions", <<"message ", "user.User">>,
                 <<"at most one of (redact.ignored), (redact.nil), or (redact.empty)">>,
                 <<"multiple options set">> \o FormatBool(msg.ignored)
                   \o FormatBool(msg.nil) \o FormatBool(msg.empty),
                 <<"these options are mutually exclusive">>)
    ELSE NoError

validateMessage(msg) ==
  LET conflictCount ==
        (IF msg.ignored THEN 1 ELSE 0) + (IF msg.nil THEN 1 ELSE 0)
          + (IF msg.empty THEN 1 ELSE 0)
  IN IF conflictCount > 1
       THEN MkError("ConflictingMessageOptions", <<"message ", "user.User">>,
                    <<"at most one of (redact.ignored), (redact.nil), or (redact.empty)">>,
                    <<"multiple options set">> \o FormatBool(msg.ignored)
                      \o FormatBool(msg.nil) \o FormatBool(msg.empty),
                    <<"these options are mutually exclusive">>)
       ELSE NoError

MkMessageData(p, fs, i, n, e) ==
  [present |-> p, Fields |-> fs, Ignore |-> i, ToNil |-> n, ToEmpty |-> e]

\* the nil *MessageData
NoMessageData == MkMessageData(FALSE, <<>>, FALSE, FALSE, FALSE)

\* the error logged by recoverFromPanic
panicError(context) ==
  MkError("Panic", context, <<>>, <<"nil pointer dereference">>, <<>>)

\* the loop over msg.Fields(): resolved field records so far, and how it ended
RECURSIVE processFieldList(_, _, _)
RECURSIVE appendField(_, _, _, _)
processFieldList(fields, i, acc) ==
  IF i > Len(fields) THEN MkResult(acc, NoError, "return")
  ELSE appendField(fields, i, acc, processFields(fields[i].field, fields[i].ann))

\* the end of one iteration: r is what processFields returned for field i
appendField(fields, i, acc, r) ==
  IF r.outcome = "return" THEN processFieldList(fields, i + 1, Append(acc, r.data))
  ELSE MkResult(acc, r.err, r.outcome)

\* variant: the ignore option is read after the fields have been resolved
messageData_ignoreLate(msg, wantFields, loop) ==
  LET err == validateMessage(msg) IN
  IF err # NoError THEN MkResult(NoMessageData, err, "fail")
  ELSE IF ~wantFields
    THEN MkResult(MkMessageData(TRUE, <<>>, msg.ignored, msg.nil, msg.empty),
                  NoError, "return")
  ELSE IF loop.outcome = "return"
    THEN MkResult(MkMessageData(TRUE, loop.data, msg.ignored, msg.nil, msg.empty),
                  NoError, "return")
  ELSE IF loop.outcome = "panic"
    THEN MkResult(NoMessageData, panicError(<<"processing message ", "user.User">>),
                  "fail")
  ELSE MkResult(NoMessageData, loop.err, "fail")

\* processMessage, given how the loop over the fields ends when it is entered
messageData(msg, wantFields, loop) ==
  LET err == validateMessage(msg) IN
  IF err # NoError THEN MkResult(NoMessageData, err, "fail")
  ELSE IF msg.ignored
    THEN MkResult(MkMessageData(TRUE, <<>>, TRUE, FALSE, FALSE), NoError, "return")
  ELSE IF ~wantFields
    THEN MkResult(MkMessageData(TRUE, <<>>, FALSE, msg.nil, msg.empty),
                  NoError, "return")
  ELSE IF loop.outcome = "return"
    THEN MkResult(MkMessageData(TRUE, loop.data, FALSE, msg.nil, msg.empty),
                  NoError, "return")
  ELSE IF loop.outcome = "panic"
    THEN MkResult(NoMessageData, panicError(<<"processing message ", "user.User">>),
                  "fail")
  ELSE MkResult(NoMessageData, loop.err, "fail")

processMessage(msg, wantFields) ==
  messageData(msg, wantFields, processFieldList(msg.fields, 1, <<>>))

(***************************************************************************)
(* Status codes and error-message templates.                               *)
(***************************************************************************)
\* codes.PermissionDenied
PermissionDenied == 7
\* codes.Unauthenticated, the largest gRPC status code
Unauthenticated == 16

\* variant: the bound is exclusive, code 16 is rejected
validateStatusCode_exclusive(code, location) ==
  IF code >= Unauthenticated
    THEN MkError("InvalidStatusCode", <<"status code in ">> \o location,
                 <<"valid gRPC status code (0-16)">>, Itoa(code),
                 <<"see https://grpc.io/docs/guides/status-codes/ for valid codes">>)
    ELSE NoError

validateStatusCode(code, location) ==
  IF code > Unauthenticated
    THEN MkError("InvalidStatusCode", <<"status code in ">> \o location,
                 <<"valid gRPC status code (0-16)">>, Itoa(code),
                 <<"see https://grpc.io/docs/guides/status-codes/ for valid codes">>)
    ELSE NoError

\* codes.Code(c).String()
CodeString(c) ==
  CASE c = 0 -> <<"OK">> [] c = 1 -> <<"Canceled">> [] c = 2 -> <<"Unknown">>
    [] c = 3 -> <<"InvalidArgument">> [] c = 4 -> <<"DeadlineExceeded">>
    [] c = 5 -> <<"NotFound">> [] c = 6 -> <<"AlreadyExists">>
    [] c = 7 -> <<"PermissionDenied">> [] c = 8 -> <<"ResourceExhausted">>
    [] c = 9 -> <<"FailedPrecondition">> [] c = 10 -> <<"Aborted">>
    [] c = 11 -> <<"OutOfRange">> [] c = 12 -> <<"Unimplemented">>
    [] c = 13 -> <<"Internal">> [] c = 14 -> <<"Unavailable">>
    [] c = 15 -> <<"DataLoss">> [] c = 16 -> <<"Unauthenticated">>
    [] OTHER -> <<"Code(">> \o Itoa(c) \o <<")">>

defaultErrMsg ==
  <<"Permission Denied. Method: \"", "%", "service", "%", ".", "%", "method", "%",
    "\" has been redacted">>

specifierMethod == <<"%", "method", "%">>

specifierService == <<"%", "service", "%">>

HasPrefix(s, p) == Len(s) >= Len(p) /\ SubSeq(s, 1, Len(p)) = p

\* variant: only the first occurrence is replaced (strings.Replace with n = 1)
RECURSIVE ReplaceAll_first(_, _, _)
ReplaceAll_first(s, old, new) ==
  IF s = <<>> THEN <<>>
  ELSE IF HasPrefix(s, old) THEN new \o SubSeq(s, Len(old) + 1, Len(s))
  ELSE <<Head(s)>> \o ReplaceAll_first(Tail(s), old, new)

\* strings.ReplaceAll: every non-overlapping occurrence, leftmost first
RECURSIVE ReplaceAll(_, _, _)
ReplaceAll(s, old, new) ==
  IF s = <<>> THEN <<>>
  ELSE IF HasPrefix(s, old)
    THEN new \o ReplaceAll(SubSeq(s, Len(old) + 1, Len(s)), old, new)
  ELSE <<Head(s)>> \o ReplaceAll(Tail(s), old, new)

(***************************************************************************)
(* Services, methods and the service resolver.                             *)
(*                                                                         *)
(* An option that Extension() may or may not find is a record: set says    *)
(* whether the extension is present, value is what it holds.               *)
(***************************************************************************)
MkOpt(st, v) == [set |-> st, value |-> v]

MkService(sk, in, c, em) ==
  [name |-> "Chat", skip |-> sk, internal |-> in, code |-> c, errMsg |-> em]

MkMethod(nm, sk, in, c, em, inil, onil, out, cs, ss) ==
  [name |-> nm, skip |-> sk, internal |-> in, code |-> c, errMsg |-> em,
   inputNil |-> inil, outputNil |-> onil, output |-> out,
   clientStreaming |-> cs, serverStreaming |-> ss]

ServiceFQN(srv) == <<"user.", srv.name>>

MethodFQN(srv, meth) == <<"user.", srv.name, ".", meth.name>>

validateService(srv) ==
  IF srv.code.set THEN validateStatusCode(srv.code.value, ServiceFQN(srv))
  ELSE NoError

\* variant: the method's own status code is not checked before the loop body
validateMethod_noCodeCheck(srv, meth) ==
  IF meth.inputNil
    THEN MkError("NilInput", <<"method ", meth.name>>, <<>>, <<"nil input">>, <<>>)
  ELSE IF meth.outputNil
    THEN MkError("NilOutput", <<"method ", meth.name>>, <<>>, <<"nil output">>, <<>>)
  ELSE NoError

validateMethod(srv, meth) ==
  IF meth.inputNil
    THEN MkError("NilInput", <<"method ", meth.name>>, <<>>, <<"nil input">>, <<>>)
  ELSE IF meth.outputNil
    THEN MkError("NilOutput", <<"method ", meth.name>>, <<>>, <<"nil output">>, <<>>)
  ELSE IF meth.code.set
    THEN validateStatusCode(meth.code.value, MethodFQN(srv, meth))
  ELSE NoError

MkMethodData(nm, sk, out, in, sc, em, cs, ss) ==
  [Name |-> nm, Skip |-> sk, Output |-> out, Internal |-> in, StatusCode |-> sc,
   ErrMessage |-> em, ClientStreaming |-> cs, ServerStreaming |-> ss]

MkServiceData(p, nm, sk, ms) ==
  [present |-> p, Name |-> nm, Skip |-> sk, Methods |-> ms]

\* the nil *ServiceData
NoServiceData == MkServiceData(FALSE, "", FALSE, <<>>)

\* the inherited default of the service: its own code, or PermissionDenied
serviceCode(srv) == IF srv.code.set THEN srv.code.value ELSE PermissionDenied

serviceErrMsg(srv) == IF srv.errMsg.set THEN srv.errMsg.value ELSE defaultErrMsg

\* variant: the method's own code and template are not read
resolveInternal_serviceOnly(srv, meth, methData) ==
  LET methCode == serviceCode(srv)
      methErrMsg == serviceErrMsg(srv)
      withMethod == ReplaceAll(methErrMsg, specifierMethod, <<methData.Name>>)
      withService == ReplaceAll(withMethod, specifierService, <<srv.name>>)
  IN MkResult([methData EXCEPT
                 !.ErrMessage = <<Backquote>> \o withService \o <<Backquote>>,
                 !.StatusCode = CodeString(methCode),
                 !.Internal = srv.internal \/ (meth.internal.set /\ meth.internal.value)],
              NoError, "return")

\* variant: the method's internal setting replaces the service's flag
resolveInternal_override(srv, meth, methData) ==
  LET methCode == IF meth.code.set THEN meth.code.value ELSE serviceCode(srv)
      methErrMsg == IF meth.errMsg.set THEN meth.errMsg.value ELSE serviceErrMsg(srv)
      withMethod == ReplaceAll(methErrMsg, specifierMethod, <<methData.Name>>)
      withService == ReplaceAll(withMethod, specifierService, <<srv.name>>)
  IN MkResult([methData EXCEPT
                 !.ErrMessage = <<Backquote>> \o withService \o <<Backquote>>,
                 !.StatusCode = CodeString(methCode),
                 !.Internal = IF meth.internal.set THEN meth.internal.value
                              ELSE srv.internal],
              NoError, "return")

\* the part of the method loop after the skip check: code, message, internal
resolveInternal(srv, meth, methData) ==
  LET methCode == IF meth.code.set THEN meth.code.value ELSE serviceCode(srv)
      methErrMsg == IF meth.errMsg.set THEN meth.errMsg.value ELSE serviceErrMsg(srv)
      err == validateStatusCode(methCode, MethodFQN(srv, meth))
      withMethod == ReplaceAll(methErrMsg, specifierMethod, <<methData.Name>>)
      withService == ReplaceAll(withMethod, specifierService, <<srv.name>>)
  IN
  IF err # NoError THEN MkResult(methData, err, "fail")
  ELSE MkResult([methData EXCEPT
                   !.ErrMessage = <<Backquote>> \o withService \o <<Backquote>>,
                   !.StatusCode = CodeString(methCode),
                   !.Internal = srv.internal \/ (meth.internal.set /\ meth.internal.value)],
                NoError, "return")

\* variant: only the method's own skip option marks its record as skipped
methodData_ownSkip(srv, meth, methods, out) ==
  LET verr == validateMethod(srv, meth)
      methData == MkMethodData(meth.name, FALSE, out.data, FALSE, <<>>, <<>>,
                               meth.clientStreaming, meth.serverStreaming)
      r == resolveInternal(srv, meth, methData)
  IN
  IF verr # NoError THEN MkResult(methods, verr, "fail")
  ELSE IF out.outcome # "return" THEN MkResult(methods, out.err, "fail")
  ELSE IF meth.skip
    THEN MkResult(Append(methods, [methData EXCEPT !.Skip = TRUE]), NoError, "return")
  ELSE MkResult(Append(methods, r.data), r.err, r.outcome)

\* variant: code, message and internal flag are resolved before the skip check
methodData_resolveFirst(srv, meth, methods, out) ==
  LET verr == validateMethod(srv, meth)
      methData == MkMethodData(meth.name, FALSE, out.data, FALSE, <<>>, <<>>,
                               meth.clientStreaming, meth.serverStreaming)
      r == resolveInternal(srv, meth, methData)
  IN
  IF verr # NoError THEN MkResult(methods, verr, "fail")
  ELSE IF out.outcome # "return" THEN MkResult(methods, out.err, "fail")
  ELSE IF meth.skip \/ srv.skip
    THEN MkResult(Append(methods, [r.data EXCEPT !.Skip = TRUE]), r.err, r.outcome)
  ELSE MkResult(Append(methods, r.data), r.err, r.outcome)

\* one iteration of the method loop, given the record out of the output
\* message: the list of method records after it
methodData(srv, meth, methods, out) ==
  LET verr == validateMethod(srv, meth)
      methData == MkMethodData(meth.name, FALSE, out.data, FALSE, <<>>, <<>>,
                               meth.clientStreaming, meth.serverStreaming)
      r == resolveInternal(srv, meth, methData)
  IN
  IF verr # NoError THEN MkResult(methods, verr, "fail")
  ELSE IF out.outcome # "return" THEN MkResult(methods, out.err, "fail")
  ELSE IF meth.skip \/ srv.skip
    THEN MkResult(Append(methods, [methData EXCEPT !.Skip = TRUE]), NoError, "return")
  ELSE MkResult(Append(methods, r.data), r.err, r.outcome)

\* variant: the output message is resolved with its fields
processMethod_wantFields(srv, meth, methods) ==
  methodData(srv, meth, methods, processMessage(meth.output, TRUE))

processMethod(srv, meth, methods) ==
  methodData(srv, meth, methods, processMessage(meth.output, FALSE))

RECURSIVE processMethodList(_, _, _, _)
RECURSIVE nextMethod(_, _, _, _)
processMethodList(srv, meths, i, acc) ==
  IF i > Len(meths) THEN MkResult(acc, NoError, "return")
  ELSE nextMethod(srv, meths, i, processMethod(srv, meths[i], acc))

\* the end of one iteration: r is what the iteration for method i left
nextMethod(srv, meths, i, r) ==
  IF r.outcome = "return" THEN processMethodList(srv, meths, i + 1, r.data)
  ELSE r

\* processService, given how the loop over the methods ends
serviceData(srv, loop) ==
  LET err == validateService(srv)
      cerr == validateStatusCode(serviceCode(srv), ServiceFQN(srv))
  IN
  IF err # NoError THEN MkResult(NoServiceData, err, "fail")
  ELSE IF cerr # NoError THEN MkResult(NoServiceData, cerr, "fail")
  ELSE IF loop.outcome = "return"
    THEN MkResult(MkServiceData(TRUE, srv.name, srv.skip, loop.data), NoError, "return")
  ELSE MkResult(MkServiceData(TRUE, srv.name, srv.skip, loop.data), loop.err, "fail")

processService(srv, meths) == serviceData(srv, processMethodList(srv, meths, 1, <<>>))

(***************************************************************************)
(* Files and the per-file driver.  A file is its file_skip option, its     *)
(* services (each with its method list) and its messages.  The record the  *)
(* driver builds is handed to the renderer by AddGeneratorTemplateFile:    *)
(* rendered says whether that call was made.                               *)
(***************************************************************************)
MkFile(sk, srvs, msgs) == [fileSkip |-> sk, services |-> srvs, messages |-> msgs]

MkProtoFileData(r, srvs, msgs) == [rendered |-> r, Services |-> srvs, Messages |-> msgs]

\* no artifact: the renderer was not called
NoFileData == MkProtoFileData(FALSE, <<>>, <<>>)

\* the loop over file.Services()
RECURSIVE processServices(_, _, _)
RECURSIVE appendService(_, _, _, _)
processServices(srvs, i, acc) ==
  IF i > Len(srvs) THEN MkResult(acc, NoError, "return")
  ELSE appendService(srvs, i, acc, processService(srvs[i][1], srvs[i][2]))

\* the end of one iteration: r is what processService returned for service i
appendService(srvs, i, acc, r) ==
  IF r.outcome = "return" THEN processServices(srvs, i + 1, Append(acc, r.data))
  ELSE MkResult(acc, r.err, r.outcome)

\* the loop over file.AllMessages()
RECURSIVE processMessages(_, _, _)
RECURSIVE appendMessage(_, _, _, _)
processMessages(msgs, i, acc) ==
  IF i > Len(msgs) THEN MkResult(acc, NoError, "return")
  ELSE appendMessage(msgs, i, acc, processMessage(msgs[i], TRUE))

\* variant: a message that fails leaves its unfinished record in the list
\* and the loop goes on
appendMessage_continue(msgs, i, acc, r) ==
  processMessages(msgs, i + 1, Append(acc, r.data))

\* the end of one iteration: r is what processMessage returned for message i
appendMessage(msgs, i, acc, r) ==
  IF r.outcome = "return" THEN processMessages(msgs, i + 1, Append(acc, r.data))
  ELSE MkResult(acc, r.err, r.outcome)

\* Process, given how the two loops end; the message loop is entered only
\* when the service loop has returned
fileData(srvLoop, msgLoop) ==
  IF srvLoop.outcome # "return" THEN MkResult(NoFileData, srvLoop.err, "fail")
  ELSE IF msgLoop.outcome # "return" THEN MkResult(NoFileData, msgLoop.err, "fail")
  ELSE MkResult(MkProtoFileData(TRUE, srvLoop.data, msgLoop.data), NoError, "return")

Process(file) ==
  IF file.fileSkip THEN MkResult(NoFileData, NoError, "return")
  ELSE fileData(processServices(file.services, 1, <<>>),
                processMessages(file.messages, 1, <<>>))

(***************************************************************************)
(* The inputs of the handlers.                                             *)
(***************************************************************************)
(***************************************************************************)
(* importPaths: the two alias tables of a file.  An import path is a       *)
(* string; a package name and an alias are sequences of characters, so     *)
(* that a name with a number appended can equal another name.  A table is  *)
(* a function from its keys to its values.                                 *)
(***************************************************************************)
\* a path of more than 1000 characters
LongPath == "example.com/long"

PathLen(path) ==
  IF path = "" THEN 0 ELSE IF path = LongPath THEN 1001 ELSE 16

validateImportPath(path) ==
  IF path = "" THEN MkError("EmptyImportPath", <<>>, <<>>, <<>>, <<>>)
  ELSE IF PathLen(path) > 1000
    THEN MkError("ImportPathTooLong", <<>>, <<>>, Itoa(PathLen(path)), <<>>)
  ELSE NoError

DigitChars == {"0", "1", "2", "3", "4", "5", "6", "7", "8", "9"}

validatePackageName(name) ==
  IF name = <<>> THEN MkError("EmptyPackageName", <<>>, <<>>, <<>>, <<>>)
  ELSE IF name[1] \in DigitChars
    THEN MkError("InvalidPackageName", <<"package name">>,
                 <<"identifier starting with letter or underscore">>,
                 <<"name starting with digit: ">> \o name,
                 <<"package names cannot start with numbers">>)
  ELSE NoError

StandardPaths ==
  {"context", "google.golang.org/grpc", "google.golang.org/grpc/codes",
   "google.golang.org/grpc/status",
   "github.com/menta2k/protoc-gen-redact/v3/redact/v3"}

StandardAlias(path) ==
  CASE path = "context" -> <<"context">>
    [] path = "google.golang.org/grpc" -> <<"grpc">>
    [] path = "google.golang.org/grpc/codes" -> <<"codes">>
    [] path = "google.golang.org/grpc/status" -> <<"status">>
    [] OTHER -> <<"redact">>

MkTables(p2a, a2p) == [path2Alias |-> p2a, alias2Path |-> a2p]

\* the tables importPaths starts from
StandardTables ==
  MkTables([path \in StandardPaths |-> StandardAlias(path)],
           [alias \in {StandardAlias(path) : path \in StandardPaths} |->
              CHOOSE path \in StandardPaths : StandardAlias(path) = alias])

\* m[k] = v
Put(m, k, v) == [x \in DOMAIN m \cup {k} |-> IF x = k THEN v ELSE m[x]]

\* variant: a taken name always gets the number 1
aliasCount_once(alias2Path, alias, cnt) ==
  IF alias \in DOMAIN alias2Path THEN 1 ELSE 0

\* the loop `for ok { cnt++; _, ok = alias2Path[alias+strconv.Itoa(cnt)] }`,
\* entered with ok = (alias is taken) and cnt = 0: the value of cnt after it
RECURSIVE aliasCount(_, _, _)
aliasCount(alias2Path, alias, cnt) ==
  IF cnt = 0
    THEN IF alias \in DOMAIN alias2Path THEN aliasCount(alias2Path, alias, 1) ELSE 0
  ELSE IF (alias \o Itoa(cnt)) \in DOMAIN alias2Path
    THEN aliasCount(alias2Path, alias, cnt + 1)
  ELSE cnt

\* the two assignments at the end of an iteration, given the count
putAlias(tables, path, alias, cnt) ==
  MkTables(Put(tables.path2Alias, path, IF cnt > 0 THEN alias \o Itoa(cnt) ELSE alias),
           Put(tables.alias2Path, IF cnt > 0 THEN alias \o Itoa(cnt) ELSE alias, path))

\* one iteration of the loop over file.Imports()
addImport(tables, self, imp) ==
  IF imp.isNil THEN tables
  ELSE IF validateImportPath(imp.path) # NoError THEN tables
  ELSE IF self = imp.path THEN tables
  ELSE IF imp.path \in DOMAIN tables.path2Alias THEN tables
  ELSE IF ~imp.hasUsableTypes THEN tables
  ELSE IF validatePackageName(imp.packageName) # NoError THEN tables
  ELSE putAlias(tables, imp.path, imp.packageName,
                aliasCount(tables.alias2Path, imp.packageName, 0))

RECURSIVE importLoop(_, _, _, _)
importLoop(tables, self, imports, i) ==
  IF i > Len(imports) THEN tables
  ELSE importLoop(addImport(tables, self, imports[i]), self, imports, i + 1)

importPaths(self, imports) ==
  IF validateImportPath(self) # NoError
    THEN MkResult(StandardTables, validateImportPath(self), "fail")
  ELSE MkResult(importLoop(StandardTables, self, imports, 1), NoError, "return")

SeqsUpTo(S, n) == UNION {[1..k -> S] : k \in 0..n}

MkFieldInput(f, a) == [field |-> f, ann |-> a]

MkField(sh, k, o) == [shape |-> sh, kind |-> k, optional |-> o]

MkAnnotation(r, h, c) == [redact |-> r, hasCustom |-> h, custom |-> c]

\* the annotated fields that messages are built from
FieldSamples ==
  {MkFieldInput(MkField("singular", StringT, FALSE),
                MkAnnotation(FALSE, FALSE, NoValuesRule)),
   MkFieldInput(MkField("singular", StringT, FALSE),
                MkAnnotation(FALSE, TRUE, TextRule(StringT, <<"a">>))),
   MkFieldInput(MkField("singular", "int32", FALSE),
                MkAnnotation(FALSE, TRUE, TextRule(StringT, <<"a">>))),
   MkFieldInput(MkField("repeated", "int32", FALSE),
                MkAnnotation(FALSE, TRUE, ElementRule(FALSE, TRUE, AbsentItem))),
   MkFieldInput(MkField("singular", StringT, FALSE),
                MkAnnotation(FALSE, TRUE, ElementRule(FALSE, TRUE, AbsentItem))),
   MkFieldInput(MkField("singular", MessageT, FALSE),
                MkAnnotation(FALSE, TRUE, MessageRule(FALSE, FALSE, TRUE)))}

Messages ==
  {MkMessage(i, n, e, fs) :
     i \in BOOLEAN, n \in BOOLEAN, e \in BOOLEAN, fs \in SeqsUpTo(FieldSamples, MaxFields)}

PlainMessage == MkMessage(FALSE, FALSE, FALSE, <<>>)

Codes == 0..MaxCode

CodeOpts == {MkOpt(FALSE, 0)} \cup {MkOpt(TRUE, c) : c \in Codes}

ErrMsgTemplates ==
  {<<"denied">>, <<"%", "service", "%", "::", "%", "method", "%">>}

ErrMsgOpts == {MkOpt(FALSE, <<>>)} \cup {MkOpt(TRUE, t) : t \in ErrMsgTemplates}

InternalOpts == {MkOpt(FALSE, FALSE), MkOpt(TRUE, FALSE), MkOpt(TRUE, TRUE)}

Services ==
  {MkService(sk, in, c, em) :
     sk \in BOOLEAN, in \in BOOLEAN, c \in CodeOpts, em \in ErrMsgOpts}

\* every combination of the options of one unary method
Methods ==
  {MkMethod("GetUser", sk, in, c, em, FALSE, FALSE, PlainMessage, FALSE, FALSE) :
     sk \in BOOLEAN, in \in InternalOpts, c \in CodeOpts, em \in ErrMsgOpts}

\* the methods that longer method lists are built from
MethodSamples ==
  {MkMethod("GetUser", FALSE, MkOpt(FALSE, FALSE), MkOpt(FALSE, 0), MkOpt(FALSE, <<>>),
            FALSE, FALSE, PlainMessage, FALSE, FALSE),
   MkMethod("ListUsers", FALSE, MkOpt(TRUE, TRUE), MkOpt(TRUE, Unauthenticated),
            MkOpt(TRUE, <<"denied">>), FALSE, FALSE, PlainMessage, FALSE, TRUE),
   MkMethod("GetUserInternal", TRUE, MkOpt(TRUE, TRUE), MkOpt(TRUE, 5),
            MkOpt(FALSE, <<>>), FALSE, FALSE, PlainMessage, TRUE, FALSE),
   MkMethod("Upload", FALSE, MkOpt(FALSE, FALSE), MkOpt(FALSE, 0), MkOpt(FALSE, <<>>),
            TRUE, FALSE, PlainMessage, TRUE, TRUE),
   MkMethod("Watch", FALSE, MkOpt(FALSE, FALSE), MkOpt(TRUE, Unauthenticated + 1),
            MkOpt(FALSE, <<>>), FALSE, FALSE, PlainMessage, FALSE, FALSE),
   MkMethod("Export", FALSE, MkOpt(FALSE, FALSE), MkOpt(FALSE, 0), MkOpt(FALSE, <<>>),
            FALSE, FALSE, MkMessage(TRUE, TRUE, FALSE, <<>>), FALSE, FALSE)}

ServiceSamples ==
  {MkService(sk, in, MkOpt(FALSE, 0), MkOpt(FALSE, <<>>)) :
     sk \in BOOLEAN, in \in BOOLEAN}

\* (service, method list) pairs: every service with every single method, and
\* the sample services with every short list of sample methods
ServiceInputs ==
  {<<srv, <<meth>> >> : srv \in Services, meth \in Methods}
    \cup (ServiceSamples \X SeqsUpTo(MethodSamples, MaxMethods))

\* what an error-message template is made of: the two placeholders, literal
\* text and a percent sign that belongs to no placeholder
TemplatePieces == {specifierMethod, specifierService, <<"x">>, <<"%">>}

RECURSIVE Concat(_)
Concat(pieces) == IF pieces = <<>> THEN <<>> ELSE Head(pieces) \o Concat(Tail(pieces))

PieceTemplates == {Concat(pieces) : pieces \in SeqsUpTo(TemplatePieces, MaxPieces)}

\* one service with one method, the template set on the method or on the
\* service
TemplateInputs ==
  {<<MkService(FALSE, FALSE, MkOpt(FALSE, 0), MkOpt(FALSE, <<>>)),
     <<MkMethod("GetUser", FALSE, MkOpt(FALSE, FALSE), MkOpt(FALSE, 0), MkOpt(TRUE, t),
                FALSE, FALSE, PlainMessage, FALSE, FALSE)>> >> : t \in PieceTemplates}
    \cup
  {<<MkService(FALSE, FALSE, MkOpt(FALSE, 0), MkOpt(TRUE, t)),
     <<MkMethod("GetUser", FALSE, MkOpt(FALSE, FALSE), MkOpt(FALSE, 0), MkOpt(FALSE, <<>>),
                FALSE, FALSE, PlainMessage, FALSE, FALSE)>> >> : t \in PieceTemplates}

\* one plain service with one method of any streaming kind and any output
\* message
OutputInputs ==
  {<<MkService(FALSE, FALSE, MkOpt(FALSE, 0), MkOpt(FALSE, <<>>)),
     <<MkMethod("GetUser", FALSE, MkOpt(FALSE, FALSE), MkOpt(FALSE, 0), MkOpt(FALSE, <<>>),
                FALSE, FALSE, out, cs, ss)>> >> :
     out \in Messages, cs \in BOOLEAN, ss \in BOOLEAN}

\* the messages that files are built from: valid ones, an ignored one with a
\* field that would fail, one with conflicting options, one with a field of
\* the wrong kind, one whose field makes the resolver panic
FileMessages ==
  {PlainMessage,
   MkMessage(FALSE, TRUE, FALSE,
             <<MkFieldInput(MkField("singular", StringT, FALSE),
                            MkAnnotation(FALSE, TRUE, TextRule(StringT, <<"a">>)))>>),
   MkMessage(FALSE, FALSE, FALSE,
             <<MkFieldInput(MkField("singular", StringT, FALSE),
                            MkAnnotation(FALSE, FALSE, NoValuesRule)),
               MkFieldInput(MkField("repeated", "int32", FALSE),
                            MkAnnotation(FALSE, TRUE, ElementRule(FALSE, TRUE, AbsentItem)))>>),
   MkMessage(TRUE, FALSE, FALSE,
             <<MkFieldInput(MkField("singular", "int32", FALSE),
                            MkAnnotation(FALSE, TRUE, TextRule(StringT, <<"a">>)))>>),
   MkMessage(FALSE, TRUE, TRUE, <<>>),
   MkMessage(FALSE, FALSE, FALSE,
             <<MkFieldInput(MkField("singular", StringT, FALSE),
                            MkAnnotation(FALSE, TRUE, TextRule(StringT, <<"a">>))),
               MkFieldInput(MkField("singular", "int32", FALSE),
                            MkAnnotation(FALSE, TRUE, TextRule(StringT, <<"a">>)))>>),
   MkMessage(FALSE, FALSE, FALSE,
             <<MkFieldInput(MkField("singular", StringT, FALSE),
                            MkAnnotation(FALSE, TRUE, NoValuesRule))>>),
   MkMessage(FALSE, FALSE, FALSE,
             <<MkFieldInput(MkField("singular", StringT, FALSE),
                            MkAnnotation(FALSE, TRUE, ElementRule(FALSE, TRUE, AbsentItem)))>>)}

\* the services that files are built from, each with its method list
FileServices ==
  {<<MkService(FALSE, FALSE, MkOpt(FALSE, 0), MkOpt(FALSE, <<>>)),
     <<MkMethod("GetUser", FALSE, MkOpt(FALSE, FALSE), MkOpt(FALSE, 0), MkOpt(FALSE, <<>>),
                FALSE, FALSE, PlainMessage, FALSE, FALSE)>> >>,
   <<MkService(TRUE, TRUE, MkOpt(TRUE, Unauthenticated), MkOpt(TRUE, <<"denied">>)),
     <<MkMethod("GetUser", FALSE, MkOpt(FALSE, FALSE), MkOpt(FALSE, 0), MkOpt(FALSE, <<>>),
                FALSE, FALSE, PlainMessage, FALSE, FALSE)>> >>,
   <<MkService(FALSE, FALSE, MkOpt(TRUE, Unauthenticated + 1), MkOpt(FALSE, <<>>)), <<>> >>,
   <<MkService(FALSE, FALSE, MkOpt(FALSE, 0), MkOpt(FALSE, <<>>)),
     <<MkMethod("GetUser", FALSE, MkOpt(FALSE, FALSE), MkOpt(FALSE, 0), MkOpt(FALSE, <<>>),
                FALSE, FALSE, PlainMessage, FALSE, FALSE),
       MkMethod("Watch", FALSE, MkOpt(FALSE, FALSE), MkOpt(TRUE, Unauthenticated + 1),
                MkOpt(FALSE, <<>>), FALSE, FALSE, PlainMessage, FALSE, FALSE)>> >>,
   <<MkService(FALSE, FALSE, MkOpt(FALSE, 0), MkOpt(FALSE, <<>>)),
     <<MkMethod("Export", FALSE, MkOpt(FALSE, FALSE), MkOpt(FALSE, 0), MkOpt(FALSE, <<>>),
                FALSE, FALSE, MkMessage(TRUE, TRUE, FALSE, <<>>), FALSE, FALSE)>> >>}

Files ==
  {MkFile(sk, srvs, msgs) :
     sk \in BOOLEAN, srvs \in SeqsUpTo(FileServices, MaxServices),
     msgs \in SeqsUpTo(FileMessages, MaxMessages)}

(***************************************************************************)
(* State: op is the handler the run calls, arg its input, pc says whether  *)
(* the call has been made, res is its result and exited tells whether      *)
(* m.Fail has terminated the plugin process.                               *)
(***************************************************************************)
VARIABLES op, arg, pc, res, exited

vars == <<op, arg, pc, res, exited>>

\* a run that is about to call handler name on input a
Start(name, a) ==
  /\ op = name
  /\ arg = a
  /\ pc = "start"
  /\ res = MkResult(<<>>, NoError, "return")
  /\ exited = FALSE

\* the rules RuleInformation is called on: every payload, and the message
\* and element wrappers whose sub-rule pointer is nil
RuleInputs ==
  FieldRules
    \cup {MkRule(b, 0, FALSE, <<>>, FALSE, FALSE, FALSE, FALSE, AbsentItem, TRUE) :
            b \in {MessageT, "element"}}

InitRuleInformation == \E rules \in RuleInputs : Start("RuleInformation", rules)

MkImport(n, p, pk, u) ==
  [isNil |-> n, path |-> p, packageName |-> pk, hasUsableTypes |-> u]

SelfPath == "example.com/self"

\* the imports that import lists are built from: a nil entry, packages that
\* share the name user, a package named as user with a number, one named as
\* a standard alias, the file itself, an import without usable types, a
\* standard path, and imports with an invalid path or package name
ImportSamples ==
  {MkImport(TRUE, "", <<>>, FALSE),
   MkImport(FALSE, "example.com/a", <<"user">>, TRUE),
   MkImport(FALSE, "example.com/b", <<"user">>, TRUE),
   MkImport(FALSE, "example.com/c", <<"user">>, TRUE),
   MkImport(FALSE, "example.com/d", <<"user", "1">>, TRUE),
   MkImport(FALSE, "example.com/e", <<"codes">>, TRUE),
   MkImport(FALSE, SelfPath, <<"user">>, TRUE),
   MkImport(FALSE, "example.com/f", <<"user">>, FALSE),
   MkImport(FALSE, "context", <<"context">>, TRUE),
   MkImport(FALSE, "", <<"user">>, TRUE),
   MkImport(FALSE, "example.com/g", <<>>, TRUE),
   MkImport(FALSE, "example.com/h", <<"1", "user">>, TRUE),
   MkImport(FALSE, LongPath, <<"user">>, TRUE)}

\* a file with a valid or an empty import path of its own, and its imports
ImportInputs ==
  {[self |-> self, imports |-> imports] :
     self \in {SelfPath, ""}, imports \in SeqsUpTo(ImportSamples, MaxImports)}

InitImports == \E in \in ImportInputs : Start("importPaths", in)

InitFields ==
  \E field \in Fields, ann \in Annotations :
    Start("processFields", MkFieldInput(field, ann))

InitMessage ==
  \E msg \in Messages, wantFields \in BOOLEAN :
    Start("processMessage", [msg |-> msg, wantFields |-> wantFields])

InitService ==
  \E in \in ServiceInputs : Start("processService", [srv |-> in[1], methods |-> in[2]])

InitStatusCode ==
  \E code \in Codes, location \in {<<"user.", "Chat">>, <<"user.", "Chat", ".", "GetUser">>} :
    Start("validateStatusCode", [code |-> code, location |-> location])

InitFile == \E file \in Files : Start("Process", file)

InitTemplate ==
  \E in \in TemplateInputs : Start("processService", [srv |-> in[1], methods |-> in[2]])

InitOutput ==
  \E in \in OutputInputs : Start("processService", [srv |-> in[1], methods |-> in[2]])

InitRedactionDefaults ==
  \E typ \in ProtoTypes, isCollection \in BOOLEAN :
    Start("RedactionDefaults", [typ |-> typ, isCollection |-> isCollection])

InitToCustomRule ==
  \E typ \in ProtoTypes, lab \in ProtoLabels :
    Start("ToCustomRule", [typ |-> typ, lab |-> lab])

Init ==
  \/ InitFields
  \/ InitMessage
  \/ InitService
  \/ InitStatusCode
  \/ InitFile
  \/ InitTemplate
  \/ InitOutput
  \/ InitRedactionDefaults
  \/ InitToCustomRule
  \/ InitRuleInformation
  \/ InitImports

\* the handler ran and ended as r
Done(name, r) ==
  /\ op = name
  /\ pc = "start"
  /\ pc' = "done"
  /\ res' = r
  /\ exited' = (r.outcome # "return")
  /\ UNCHANGED <<op, arg>>

ProcessFields == Done("processFields", processFields(arg.field, arg.ann))

ProcessMessage == Done("processMessage", processMessage(arg.msg, arg.wantFields))

ProcessService == Done("processService", processService(arg.srv, arg.methods))

ValidateStatusCode ==
  Done("validateStatusCode",
       MkResult(<<>>, validateStatusCode(arg.code, arg.location), "return"))

ProcessFile == Done("Process", Process(arg))

ApplyRedactionDefaults ==
  Done("RedactionDefaults",
       MkResult(RedactionDefaults(arg.typ, arg.isCollection), NoError, "return"))

ApplyToCustomRule ==
  Done("ToCustomRule", MkResult(ToCustomRule(arg.typ, arg.lab), NoError, "return"))

\* RuleInformation ends the run through m.Fail when it marks its result failed
RuleInformationResult(info) ==
  MkResult(info, NoError, IF info.failed THEN "fail" ELSE "return")

ApplyRuleInformation == Done("RuleInformation", RuleInformationResult(RuleInformation(arg)))

ImportPaths == Done("importPaths", importPaths(arg.self, arg.imports))

Next ==
  \/ ProcessFields
  \/ ProcessMessage
  \/ ProcessService
  \/ ValidateStatusCode
  \/ ProcessFile
  \/ ApplyRedactionDefaults
  \/ ApplyToCustomRule
  \/ ApplyRuleInformation
  \/ ImportPaths

Spec == Init /\ [][Next]_vars

\* the field resolver alone
FieldSpec == InitFields /\ [][ProcessFields]_vars

\* the message resolver alone
MessageSpec == InitMessage /\ [][ProcessMessage]_vars

\* the service resolver and the status-code validator
ServiceSpec ==
  (InitService \/ InitStatusCode) /\ [][ProcessService \/ ValidateStatusCode]_vars

\* the per-file driver alone
FileSpec == InitFile /\ [][ProcessFile]_vars

\* the service resolver on the error-message templates
TemplateSpec == InitTemplate /\ [][ProcessService]_vars

\* the service resolver on the output messages of methods
OutputSpec == InitOutput /\ [][ProcessService]_vars

\* the two tables alone
TableSpec ==
  (InitRedactionDefaults \/ InitToCustomRule)
    /\ [][ApplyRedactionDefaults \/ ApplyToCustomRule]_vars

(***************************************************************************)
(* Properties.                                                             *)
(***************************************************************************)
\* RuleInformation alone
RuleSpec == InitRuleInformation /\ [][ApplyRuleInformation]_vars

RuleInformationDone == op = "RuleInformation" /\ pc = "done"

\* the import tables alone
ImportSpec == InitImports /\ [][ImportPaths]_vars

ImportsDone == op = "importPaths" /\ pc = "done"

FieldDone == op = "processFields" /\ pc = "done"

MessageDone == op = "processMessage" /\ pc = "done"

ServiceDone == op = "processService" /\ pc = "done"

StatusCodeDone == op = "validateStatusCode" /\ pc = "done"

FileDone == op = "Process" /\ pc = "done"

RedactionDefaultsDone == op = "RedactionDefaults" /\ pc = "done"

ToCustomRuleDone == op = "ToCustomRule" /\ pc = "done"

\* number of message options that are true
OptionCount(msg) ==
  Cardinality({o \in {"ignored", "nil", "empty"} :
                 \/ o = "ignored" /\ msg.ignored
                 \/ o = "nil" /\ msg.nil
                 \/ o = "empty" /\ msg.empty})

\* C1: message resolution fails with a conflicting-options error exactly when
\* more than one of ignored / nil / empty is true; the failure comes before
\* any field is resolved (no message record, and never a field's own error),
\* and with zero or one option the option check lets the message through.
C1_ConflictingOptions ==
  MessageDone =>
    IF OptionCount(arg.msg) > 1
      THEN /\ res.outcome = "fail"
           /\ res.err.class = "ConflictingMessageOptions"
           /\ ~res.data.present
           /\ res.data.Fields = <<>>
      ELSE /\ res.err.class # "ConflictingMessageOptions"
           /\ (arg.msg.ignored \/ ~arg.wantFields \/ arg.msg.fields = <<>>)
                => (res.outcome = "return" /\ res.data.present)

\* a message with two options set whose first field would itself be rejected
C1_Witness ==
  /\ MessageDone
  /\ OptionCount(arg.msg) = 2
  /\ arg.wantFields
  /\ Len(arg.msg.fields) > 0
  /\ processFields(arg.msg.fields[1].field, arg.msg.fields[1].ann).outcome = "fail"
  /\ res.err.class = "ConflictingMessageOptions"

\* the field carries a structured rule of a scalar, enum or message kind
HasKindRule == arg.ann.hasCustom /\ arg.ann.custom.branch \in Kinds

\* C2: a structured rule whose kind differs from the field's kind
\* (typ.ProtoType()) makes field resolution fail with a type-mismatch error
\* naming the field's kind and the rule's kind and suggesting the spelling
\* for the field's own kind and label; the value stays the prefilled
\* default, the rule's literal is not used.
C2_TypeMismatch ==
  (FieldDone /\ HasKindRule /\ arg.ann.custom.branch # ProtoType(arg.field)) =>
    /\ res.outcome = "fail"
    /\ res.err.class = "TypeMismatch"
    /\ res.err.Expected = <<"rule for type ", ProtoType(arg.field)>>
    /\ res.err.Got = <<"rule for type ", arg.ann.custom.branch>>
    /\ res.err.Hint =
         <<"use ">> \o ToCustomRule(ProtoType(arg.field), ProtoLabel(arg.field))
           \o <<" instead">>
    /\ res.data.RedactionValue =
         RedactionDefaults(ProtoType(arg.field), arg.field.shape # "singular")

\* a string field with an int32 rule whose literal is 1
C2_Witness ==
  /\ FieldDone
  /\ arg.field.shape = "singular"
  /\ arg.field.kind = StringT
  /\ arg.ann.hasCustom
  /\ arg.ann.custom.branch = "int32"
  /\ arg.ann.custom.num = 1
  /\ res.err.class = "TypeMismatch"

ElementSpelling == <<"(redact.custom).", "element", ".*">>

\* the field is repeated or a map and carries a scalar, enum or message rule
ContainerWithKindRule == FieldDone /\ arg.field.shape # "singular" /\ HasKindRule

\* C3 as stated: every repeated or map field with a rule that is not an
\* element rule fails with a label-mismatch error suggesting the element rule.
C3_Original ==
  ContainerWithKindRule =>
    /\ res.outcome = "fail"
    /\ res.err.class = "LabelMismatch"
    /\ res.err.Expected = ElementSpelling

\* C3 (amended): a repeated or map field with a scalar, enum or message rule
\* always fails and the error points to the element-rule spelling: a
\* label-mismatch error when the rule's kind equals the field's kind, a
\* type-mismatch error with that spelling as its hint otherwise.
C3_LabelMismatch ==
  ContainerWithKindRule =>
    /\ res.outcome = "fail"
    /\ res.data.RedactionValue = <<"nil">>
    /\ ~res.data.Iterate
    /\ IF arg.ann.custom.branch = ProtoType(arg.field)
         THEN /\ res.err.class = "LabelMismatch"
              /\ res.err.Expected = ElementSpelling
         ELSE /\ res.err.class = "TypeMismatch"
              /\ res.err.Hint = <<"use ">> \o ElementSpelling \o <<" instead">>

\* a repeated int32 field with an int32 rule
C3_Witness ==
  /\ ContainerWithKindRule
  /\ arg.field.shape = "repeated"
  /\ arg.field.kind = "int32"
  /\ arg.ann.custom.branch = "int32"
  /\ res.err.class = "LabelMismatch"

\* C4: a singular field with an element rule is rejected with a
\* label-mismatch error, and nothing is derived from the element rule: the
\* value stays the prefilled default and iterate stays false.
C4_SingularElementRule ==
  (FieldDone /\ arg.field.shape = "singular" /\ arg.ann.hasCustom
     /\ arg.ann.custom.branch = "element" /\ arg.ann.custom.Item.branch # "element") =>
    /\ res.outcome = "fail"
    /\ res.err.class = "LabelMismatch"
    /\ ~res.data.Iterate
    /\ res.data.RedactionValue = RedactionDefaults(ProtoType(arg.field), FALSE)

\* C5: an element rule whose item rule is an element rule always fails with
\* a nested-depth error, whatever the inner rule and the other options of
\* the outer rule are; the field gets no iterate flag and no value.
C5_NestedDepth ==
  (FieldDone /\ arg.ann.hasCustom /\ arg.ann.custom.branch = "element"
     /\ arg.ann.custom.Item.branch = "element") =>
    /\ res.outcome = "fail"
    /\ res.err.class = "NestedDepthExceeded"
    /\ ~res.data.Iterate
    /\ ~res.data.Redact
    /\ res.data.RedactionValue = <<>>

\* a repeated field whose element rule sets empty next to a nested item rule
C5_Witness ==
  /\ FieldDone
  /\ arg.field.shape = "repeated"
  /\ arg.ann.hasCustom
  /\ arg.ann.custom.branch = "element"
  /\ arg.ann.custom.Empty
  /\ arg.ann.custom.Item.branch = "element"
  /\ arg.ann.custom.Item.Nested
  /\ res.err.class = "NestedDepthExceeded"

\* a message rule with none of empty / nil / skip set
BareMessageRule(rules) ==
  rules.branch = MessageT /\ ~rules.Empty /\ ~rules.Nil /\ ~rules.Skip

\* an element rule with none of empty / nested / item set
BareElementRule(rules) ==
  rules.branch = "element" /\ ~rules.Empty /\ ~rules.Nested
    /\ rules.Item.branch = "absent"

SetCodes ==
  (IF arg.srv.code.set THEN {arg.srv.code.value} ELSE {})
    \cup {arg.methods[i].code.value :
            i \in {j \in 1..Len(arg.methods) : arg.methods[j].code.set}}

\* C7: status-code validation accepts every code in 0..16 and rejects every
\* code from 17 on with an error that names the location; a service-level
\* code and a method-level code meet the same bound.
C7_StatusCodeRange ==
  /\ StatusCodeDone =>
       IF arg.code <= 16
         THEN res.err = NoError
         ELSE /\ res.err.class = "InvalidStatusCode"
              /\ res.err.Entity = <<"status code in ">> \o arg.location
              /\ res.err.Got = Itoa(arg.code)
  /\ ServiceDone =>
       /\ (arg.srv.code.set /\ arg.srv.code.value >= 17) =>
            /\ res.outcome = "fail"
            /\ res.err.class = "InvalidStatusCode"
            /\ res.err.Entity = <<"status code in ", "user.", arg.srv.name>>
            /\ ~res.data.present
       /\ (/\ ~(arg.srv.code.set /\ arg.srv.code.value >= 17)
           /\ Len(arg.methods) > 0
           /\ ~arg.methods[1].inputNil /\ ~arg.methods[1].outputNil
           /\ arg.methods[1].code.set /\ arg.methods[1].code.value >= 17) =>
            /\ res.outcome = "fail"
            /\ res.err.class = "InvalidStatusCode"
            /\ res.err.Entity =
                 <<"status code in ", "user.", arg.srv.name, ".", arg.methods[1].name>>
            /\ res.data.Methods = <<>>
       /\ (\A c \in SetCodes : c <= 16) => res.err.class # "InvalidStatusCode"

\* code 16 set on the method of a service that is resolved without error
C7_Witness ==
  /\ ServiceDone
  /\ Len(arg.methods) = 1
  /\ arg.methods[1].code.set
  /\ arg.methods[1].code.value = 16
  /\ arg.srv.code.set
  /\ arg.srv.code.value = 0
  /\ res.outcome = "return"
  /\ Len(res.data.Methods) = 1

\* the code a method inherits: its own, else the service's, else 7
ExpectedCode(srv, meth) ==
  IF meth.code.set THEN meth.code.value
  ELSE IF srv.code.set THEN srv.code.value
  ELSE 7

\* the template a method inherits: its own, else the service's, else none
ExpectedTemplate(srv, meth) ==
  IF meth.errMsg.set THEN meth.errMsg.value
  ELSE IF srv.errMsg.set THEN srv.errMsg.value
  ELSE <<>>

\* the inherited template with the names filled in, written out per template
ExpectedErrMessage(srv, meth) ==
  LET t == ExpectedTemplate(srv, meth) IN
  CASE t = <<>> ->
         <<"Permission Denied. Method: \"", srv.name, ".", meth.name,
           "\" has been redacted">>
    [] t = <<"%", "service", "%", "::", "%", "method", "%">> ->
         <<srv.name, "::", meth.name>>
    [] OTHER -> t

\* C8: every non-skipped method record carries the name of the method's own
\* code if it sets one, else of the service's code, else of PermissionDenied
\* (7), and the error message built from the method's own template, else the
\* service's, else the default template, with both names filled in.
C8_Inheritance ==
  (ServiceDone /\ res.data.present) =>
    \A i \in 1..Len(res.data.Methods) :
      ~res.data.Methods[i].Skip =>
        /\ res.data.Methods[i].StatusCode =
             CodeString(ExpectedCode(arg.srv, arg.methods[i]))
        /\ res.data.Methods[i].ErrMessage =
             <<Backquote>> \o ExpectedErrMessage(arg.srv, arg.methods[i])
               \o <<Backquote>>

\* a method without code and template under a service that sets both
C8_Witness ==
  /\ ServiceDone
  /\ res.outcome = "return"
  /\ Len(arg.methods) = 1
  /\ ~arg.methods[1].code.set
  /\ ~arg.methods[1].errMsg.set
  /\ arg.srv.code.set
  /\ arg.srv.code.value = 3
  /\ arg.srv.errMsg.set
  /\ arg.srv.errMsg.value = <<"%", "service", "%", "::", "%", "method", "%">>
  /\ Len(res.data.Methods) = 1
  /\ ~res.data.Methods[1].Skip
  /\ res.data.Methods[1].StatusCode = <<"InvalidArgument">>
  /\ res.data.Methods[1].ErrMessage = <<Backquote, "Chat", "::", "GetUser", Backquote>>

\* C9 as stated: the method's own internal setting, true or false, replaces
\* the service's flag whenever the method sets one.
C9_Original ==
  (ServiceDone /\ res.data.present) =>
    \A i \in 1..Len(res.data.Methods) :
      ~res.data.Methods[i].Skip =>
        res.data.Methods[i].Internal =
          IF arg.methods[i].internal.set THEN arg.methods[i].internal.value
          ELSE arg.srv.internal

\* C9 (amended): the resolved internal flag of a non-skipped method is true
\* exactly when the service is internal or the method sets internal to true;
\* a method can switch the flag on but cannot switch an internal service's
\* flag off, whatever code and message it sets.
C9_InternalFlag ==
  (ServiceDone /\ res.data.present) =>
    \A i \in 1..Len(res.data.Methods) :
      ~res.data.Methods[i].Skip =>
        /\ arg.srv.internal => res.data.Methods[i].Internal
        /\ ~arg.srv.internal =>
             res.data.Methods[i].Internal =
               (arg.methods[i].internal.set /\ arg.methods[i].internal.value)

\* a method that sets internal to false under an internal service
C9_Witness ==
  /\ ServiceDone
  /\ res.outcome = "return"
  /\ arg.srv.internal
  /\ Len(arg.methods) = 1
  /\ arg.methods[1].internal.set
  /\ ~arg.methods[1].internal.value
  /\ Len(res.data.Methods) = 1
  /\ ~res.data.Methods[1].Skip
  /\ res.data.Methods[1].Internal

\* C10: a field with only the bare redact flag resolves to redact = true with
\* the default value of its kind (nil for a repeated or map field) and, for
\* an embedded message, nestedCall = true.
C10_BareFlag ==
  (FieldDone /\ arg.ann.redact /\ ~arg.ann.hasCustom) =>
    /\ res.outcome = "return"
    /\ res.data.Redact
    /\ res.data.RedactionValue =
         RedactionDefaults(ProtoType(arg.field), arg.field.shape # "singular")
    /\ IsEmbed(arg.field) => res.data.NestedEmbedCall

\* a message rule on a singular message field
EmbedWithMessageRule ==
  /\ FieldDone
  /\ IsEmbed(arg.field)
  /\ arg.ann.hasCustom
  /\ arg.ann.custom.branch = MessageT

\* the options of the message rule that are set
MessageOptions(rule) ==
  {o \in {"empty", "nil", "skip"} :
     \/ o = "empty" /\ rule.Empty
     \/ o = "nil" /\ rule.Nil
     \/ o = "skip" /\ rule.Skip}

\* C11: a singular message field with a message rule resolves without error
\* to redact=true; with option empty alone the value is the address of an
\* empty literal of the embedded type, with option nil alone the value is
\* nil, with option skip alone embedSkip is true and nestedCall false, and
\* with none of the three nestedCall is true and embedSkip false.
C11_MessageRule ==
  EmbedWithMessageRule =>
    /\ res.outcome = "return"
    /\ res.data.Redact
    /\ MessageOptions(arg.ann.custom) = {"empty"} =>
         res.data.RedactionValue = <<"&">> \o EmbedName(arg.field) \o <<"{}">>
    /\ MessageOptions(arg.ann.custom) = {"nil"} =>
         res.data.RedactionValue = <<"nil">>
    /\ MessageOptions(arg.ann.custom) = {"skip"} =>
         res.data.EmbedSkip /\ ~res.data.NestedEmbedCall
    /\ MessageOptions(arg.ann.custom) = {} =>
         res.data.NestedEmbedCall /\ ~res.data.EmbedSkip

\* field `config`, an embedded message, with message rule skip
C11_Witness ==
  /\ EmbedWithMessageRule
  /\ MessageOptions(arg.ann.custom) = {"skip"}
  /\ res.data.EmbedSkip
  /\ ~res.data.NestedEmbedCall
  /\ res.data.Redact

\* an element rule, whose item is not another element rule, on a repeated
\* or map field
ContainerWithElementRule ==
  /\ FieldDone
  /\ arg.field.shape \in {"repeated", "map"}
  /\ arg.ann.hasCustom
  /\ arg.ann.custom.branch = "element"
  /\ arg.ann.custom.Item.branch # "element"

\* the literal of the empty collection of a field's Go type
EmptyCollection(field) ==
  IF field.kind = MessageT
    THEN IF field.shape = "map" THEN <<"map[", "string", "]*", "pb.Profile", "{}">>
         ELSE <<"[]*", "pb.Profile", "{}">>
    ELSE IF field.shape = "map" THEN <<"map[", "string", "]", GoScalar(field.kind), "{}">>
         ELSE <<"[]", GoScalar(field.kind), "{}">>

\* what the item rule of the run gives as the rule of a singular field of
\* the element's kind
ItemOnSingular ==
  processFields(MkField("singular", arg.field.kind, FALSE),
                MkAnnotation(FALSE, TRUE, arg.ann.custom.Item))

\* C12: on a repeated or map field with an element rule (of legal nesting
\* depth), option empty gives
\* the empty slice or map literal of the field's Go type with iterate=false;
\* otherwise option nested gives iterate=true, the singular default of the
\* element's kind, and nestedCall exactly when the element is a message;
\* otherwise an item rule of the element's kind gives iterate=true with the
\* value, nestedCall and embedSkip that the same rule gives on a singular
\* field of that kind, and an item rule of another kind fails as it does
\* there.
C12_ElementRule ==
  ContainerWithElementRule =>
    /\ arg.ann.custom.Empty =>
         /\ res.outcome = "return"
         /\ res.data.Redact
         /\ res.data.RedactionValue = EmptyCollection(arg.field)
         /\ ~res.data.Iterate
    /\ (~arg.ann.custom.Empty /\ arg.ann.custom.Nested) =>
         /\ res.outcome = "return"
         /\ res.data.Redact
         /\ res.data.Iterate
         /\ res.data.RedactionValue = RedactionDefaults(arg.field.kind, FALSE)
         /\ res.data.NestedEmbedCall = (arg.field.kind = MessageT)
    /\ (/\ ~arg.ann.custom.Empty
        /\ ~arg.ann.custom.Nested
        /\ arg.ann.custom.Item.branch \in Kinds) =>
         IF arg.ann.custom.Item.branch = arg.field.kind
           THEN /\ res.outcome = "return"
                /\ res.data.Redact
                /\ res.data.Iterate
                /\ ItemOnSingular.outcome = "return"
                /\ res.data.RedactionValue = ItemOnSingular.data.RedactionValue
                /\ res.data.NestedEmbedCall = ItemOnSingular.data.NestedEmbedCall
                /\ res.data.EmbedSkip = ItemOnSingular.data.EmbedSkip
           ELSE /\ res.outcome = "fail"
                /\ ItemOnSingular.outcome = "fail"
                /\ ~res.data.Iterate

\* field `scores`, repeated int32, with element rule nested
C12_Witness ==
  /\ ContainerWithElementRule
  /\ arg.field.shape = "repeated"
  /\ arg.field.kind = "int32"
  /\ ~arg.ann.custom.Empty
  /\ arg.ann.custom.Nested
  /\ res.data.Iterate
  /\ res.data.RedactionValue = <<"0">>

\* a map of messages whose item rule is message rule empty
C12_ItemWitness ==
  /\ ContainerWithElementRule
  /\ arg.field.shape = "map"
  /\ arg.field.kind = MessageT
  /\ ~arg.ann.custom.Empty
  /\ ~arg.ann.custom.Nested
  /\ arg.ann.custom.Item.branch = MessageT
  /\ arg.ann.custom.Item.Empty
  /\ res.data.Iterate
  /\ res.data.RedactionValue = <<"&", "pb.Profile", "{}">>

\* C13: whatever the field and its annotation are, and however field
\* resolution ends, the field record never has both nestedCall and embedSkip
\* true.
C13_NestedOrSkip == FieldDone => ~(res.data.NestedEmbedCall /\ res.data.EmbedSkip)

\* a repeated message field whose item rule is message rule skip
C13_Witness ==
  /\ FieldDone
  /\ arg.field.shape = "repeated"
  /\ arg.ann.hasCustom
  /\ arg.ann.custom.branch = "element"
  /\ arg.ann.custom.Item.branch = MessageT
  /\ arg.ann.custom.Item.Skip
  /\ res.outcome = "return"
  /\ res.data.EmbedSkip
  /\ ~res.data.NestedEmbedCall

\* C14: every field decision that field resolution returns with iterate=true
\* is the decision of a repeated or map field; for a singular field, plain or
\* optional, of any kind and with any rule, no decision with iterate=true is
\* returned.
C14_IterateContainer ==
  (FieldDone /\ res.outcome = "return" /\ res.data.Iterate) =>
    /\ arg.field.shape \in {"repeated", "map"}
    /\ res.data.IsRepeated \/ res.data.IsMap

\* a singular field with element rule nested: resolution does not return
C14_Witness ==
  /\ FieldDone
  /\ arg.field.shape = "singular"
  /\ arg.ann.hasCustom
  /\ arg.ann.custom.branch = "element"
  /\ ~arg.ann.custom.Empty
  /\ arg.ann.custom.Nested
  /\ res.outcome = "panic"

\* C16: a field without annotation resolves without error to redact=false,
\* and every decision returned with redact=false has an empty redaction
\* value and iterate, nestedCall and embedSkip false.
C16_PassThrough ==
  /\ (FieldDone /\ ~arg.ann.redact /\ ~arg.ann.hasCustom) =>
       /\ res.outcome = "return"
       /\ res.err = NoError
       /\ ~res.data.Redact
  /\ (FieldDone /\ res.outcome = "return" /\ ~res.data.Redact) =>
       /\ res.data.RedactionValue = <<>>
       /\ ~res.data.Iterate
       /\ ~res.data.NestedEmbedCall
       /\ ~res.data.EmbedSkip

\* a repeated message field without annotation
C16_Witness ==
  /\ FieldDone
  /\ arg.field.shape = "repeated"
  /\ arg.field.kind = MessageT
  /\ ~arg.ann.redact
  /\ ~arg.ann.hasCustom
  /\ res.outcome = "return"
  /\ ~res.data.Redact
  /\ res.data.RedactionValue = <<>>

\* some service (or one of its methods) or some message (or one of its
\* fields) of the file fails validation
FailedElement(file) ==
  \/ \E i \in 1..Len(file.services) :
       processService(file.services[i][1], file.services[i][2]).outcome # "return"
  \/ \E j \in 1..Len(file.messages) :
       processMessage(file.messages[j], TRUE).outcome # "return"

\* C15: when any field, message, method or service of a file fails
\* validation, the run ends in failure and the renderer is not called, so it
\* is given no record at all; and whenever the renderer is called, no element
\* of the file has failed and it gets one complete record per service and
\* per message, in declaration order.
C15_NoPartialOutput ==
  FileDone =>
    /\ (~arg.fileSkip /\ FailedElement(arg)) =>
         /\ exited
         /\ res.outcome = "fail"
         /\ ~res.data.rendered
         /\ res.data.Services = <<>>
         /\ res.data.Messages = <<>>
    /\ res.data.rendered =>
         /\ ~FailedElement(arg)
         /\ Len(res.data.Services) = Len(arg.services)
         /\ Len(res.data.Messages) = Len(arg.messages)
         /\ \A i \in 1..Len(arg.services) :
              res.data.Services[i] =
                processService(arg.services[i][1], arg.services[i][2]).data
         /\ \A j \in 1..Len(arg.messages) :
              res.data.Messages[j] = processMessage(arg.messages[j], TRUE).data

\* a file whose first message is valid and whose second message has a field
\* with a rule of the wrong kind: nothing is rendered
C15_Witness ==
  /\ FileDone
  /\ ~arg.fileSkip
  /\ Len(arg.messages) = 2
  /\ processMessage(arg.messages[1], TRUE).outcome = "return"
  /\ processMessage(arg.messages[2], TRUE).err.class = "TypeMismatch"
  /\ exited
  /\ ~res.data.rendered

\* C17: the default-value table gives, for a singular field, "0" for each of
\* the twelve numeric kinds and for enum, "false" for bool, the quoted
\* placeholder "REDACTED" for string, "nil" for bytes and "-" for message,
\* and "nil" for every kind of a collection; the result is never empty and
\* no numeric kind gets the placeholder of string.
C17_DefaultTable ==
  RedactionDefaultsDone =>
    /\ res.outcome = "return"
    /\ res.data # <<>>
    /\ arg.isCollection => res.data = <<"nil">>
    /\ (/\ ~arg.isCollection
        /\ arg.typ \in {"int32", "int64", "uint32", "uint64", "sint32", "sint64",
                        "fixed32", "fixed64", "sfixed32", "sfixed64", "float",
                        "double", "enum"}) =>
         res.data = <<"0">> /\ res.data # <<"\"REDACTED\"">>
    /\ (~arg.isCollection /\ arg.typ = "bool") => res.data = <<"false">>
    /\ (~arg.isCollection /\ arg.typ = "string") => res.data = <<"\"REDACTED\"">>
    /\ (~arg.isCollection /\ arg.typ = "bytes") => res.data = <<"nil">>
    /\ (~arg.isCollection /\ arg.typ = "message") => res.data = <<"-">>

\* the default of a singular double
C17_Witness ==
  /\ RedactionDefaultsDone
  /\ arg.typ = "double"
  /\ ~arg.isCollection
  /\ res.data = <<"0">>

\* the template of the run's only method: its own, else the service's
TemplateOfRun ==
  IF arg.methods[1].errMsg.set THEN arg.methods[1].errMsg.value
  ELSE arg.srv.errMsg.value

\* the pieces with each placeholder replaced by the name it stands for
Substituted(pieces, service, method) ==
  Concat([i \in 1..Len(pieces) |->
            IF pieces[i] = specifierMethod THEN <<method>>
            ELSE IF pieces[i] = specifierService THEN <<service>>
            ELSE pieces[i]])

\* the run resolved one method under a template set on it or on its service
TemplateResolved ==
  /\ ServiceDone
  /\ Len(arg.methods) = 1
  /\ arg.methods[1].errMsg.set \/ arg.srv.errMsg.set
  /\ res.outcome = "return"
  /\ Len(res.data.Methods) = 1
  /\ ~res.data.Methods[1].Skip

\* C18: however a template is put together from occurrences of %service%,
\* occurrences of %method% and other text, the error message of the method
\* is the same text with every %service% replaced by the service name and
\* every %method% by the method name; a template without placeholder is the
\* error message as it stands.
C18_TemplateSubstitution ==
  TemplateResolved =>
    \A pieces \in SeqsUpTo(TemplatePieces, MaxPieces) :
      Concat(pieces) = TemplateOfRun =>
        /\ res.data.Methods[1].ErrMessage =
             <<Backquote>>
               \o Substituted(pieces, arg.srv.name, arg.methods[1].name)
               \o <<Backquote>>
        /\ (\A i \in 1..Len(pieces) :
              pieces[i] \notin {specifierMethod, specifierService}) =>
             res.data.Methods[1].ErrMessage =
               <<Backquote>> \o TemplateOfRun \o <<Backquote>>

\* the template "%method%x%method%": both occurrences are replaced
C18_Witness ==
  /\ TemplateResolved
  /\ TemplateOfRun = <<"%", "method", "%", "x", "%", "method", "%">>
  /\ res.data.Methods[1].ErrMessage =
       <<Backquote, "GetUser", "x", "GetUser", Backquote>>

\* C19: under a service with skip set, every method record that is built has
\* skip=true, whether the method itself sets skip or not, and the records
\* are those of the service's methods in declaration order; when the service
\* resolves without error there is one record per method.
C19_ServiceSkip ==
  (ServiceDone /\ arg.srv.skip /\ res.data.present) =>
    /\ res.data.Skip
    /\ Len(res.data.Methods) <= Len(arg.methods)
    /\ \A i \in 1..Len(res.data.Methods) :
         /\ res.data.Methods[i].Skip
         /\ res.data.Methods[i].Name = arg.methods[i].name
    /\ res.outcome = "return" => Len(res.data.Methods) = Len(arg.methods)

\* a skipped service with two methods, the first of which does not set skip
C19_Witness ==
  /\ ServiceDone
  /\ arg.srv.skip
  /\ Len(arg.methods) = 2
  /\ ~arg.methods[1].skip
  /\ arg.methods[1].name # arg.methods[2].name
  /\ res.outcome = "return"
  /\ Len(res.data.Methods) = 2
  /\ res.data.Methods[1].Skip
  /\ res.data.Methods[2].Skip

\* C20: a message with the ignore option set (and neither nil nor empty,
\* which would conflict with it) resolves without error to ignore=true and
\* an empty field list, whatever its fields and their annotations are; and
\* no message with ignore set, conflicting or not, fails with the error of
\* one of its fields.
C20_Ignore ==
  (MessageDone /\ arg.msg.ignored) =>
    /\ (~arg.msg.nil /\ ~arg.msg.empty) =>
         /\ res.outcome = "return"
         /\ res.err = NoError
         /\ res.data.present
         /\ res.data.Ignore
         /\ res.data.Fields = <<>>
    /\ res.err.class \in {"none", "ConflictingMessageOptions"}

\* an ignored message whose only field has a rule of the wrong kind
C20_Witness ==
  /\ MessageDone
  /\ arg.msg.ignored
  /\ arg.wantFields
  /\ Len(arg.msg.fields) = 1
  /\ processFields(arg.msg.fields[1].field, arg.msg.fields[1].ann).err.class
       = "TypeMismatch"
  /\ res.outcome = "return"
  /\ res.data.Ignore
  /\ res.data.Fields = <<>>

\* the run built the record of its only method
MethodBuilt ==
  /\ ServiceDone
  /\ Len(arg.methods) = 1
  /\ res.outcome = "return"
  /\ Len(res.data.Methods) = 1

\* C21 as stated: the Output of a built method lists every field of an
\* output message that is not ignored, in declaration order.
C21_Original ==
  (MethodBuilt /\ ~arg.methods[1].output.ignored) =>
    /\ Len(res.data.Methods[1].Output.Fields) = Len(arg.methods[1].output.fields)
    /\ res.data.Methods[1].Output = processMessage(arg.methods[1].output, TRUE).data

\* C21: whatever the streaming flags of a built method are, its Output is
\* the record of its output message with the message's ignore, nil and empty
\* options and an empty field list: the fields of an output message are not
\* resolved there, so none of them can fail the method.
C21_Output ==
  /\ MethodBuilt =>
       /\ res.data.Methods[1].Output.present
       /\ res.data.Methods[1].Output.Fields = <<>>
       /\ res.data.Methods[1].Output.Ignore = arg.methods[1].output.ignored
       /\ ~arg.methods[1].output.ignored =>
            /\ res.data.Methods[1].Output.ToNil = arg.methods[1].output.nil
            /\ res.data.Methods[1].Output.ToEmpty = arg.methods[1].output.empty
       /\ res.data.Methods[1].ClientStreaming = arg.methods[1].clientStreaming
       /\ res.data.Methods[1].ServerStreaming = arg.methods[1].serverStreaming
  /\ (ServiceDone /\ Len(arg.methods) = 1 /\ res.outcome # "return") =>
       res.err.class \in {"ConflictingMessageOptions", "InvalidStatusCode",
                          "NilInput", "NilOutput"}

\* a server-streaming method whose output message has one redacted field
C21_Witness ==
  /\ MethodBuilt
  /\ arg.methods[1].serverStreaming
  /\ ~arg.methods[1].output.ignored
  /\ Len(arg.methods[1].output.fields) = 1
  /\ processMessage(arg.methods[1].output, TRUE).outcome = "return"
  /\ processMessage(arg.methods[1].output, TRUE).data.Fields[1].Redact
  /\ res.data.Methods[1].Output.Fields = <<>>

\* the branch of a rule written in the spelling that ToCustomRule suggests
SuggestedBranch(spelling) == IF Len(spelling) >= 2 THEN spelling[2] ELSE "nil"

\* the rule of the run has the shape suggested for the field's kind and label
SuggestedRule ==
  /\ FieldDone
  /\ arg.ann.hasCustom
  /\ arg.ann.custom.branch =
       SuggestedBranch(ToCustomRule(ProtoType(arg.field), ProtoLabel(arg.field)))

\* C22: for a field of any kind and label, a rule of the shape that
\* ToCustomRule suggests for that kind and label (element rule for a
\* repeated or map field, message rule for a singular message, the scalar
\* rule of the field's kind otherwise) never ends field resolution with a
\* type-mismatch or label-mismatch error.
C22_RoundTrip ==
  SuggestedRule => res.err.class \notin {"TypeMismatch", "LabelMismatch"}

\* a map of int32 values with the suggested element rule (option empty)
C22_Witness ==
  /\ SuggestedRule
  /\ arg.field.shape = "map"
  /\ arg.field.kind = "int32"
  /\ arg.ann.custom.branch = "element"
  /\ arg.ann.custom.Empty
  /\ res.outcome = "return"
  /\ res.data.Redact

\* C23 as stated: isOptional is true only for a singular, explicitly optional
\* scalar or enum field, never for bytes, never for a message field and
\* never together with isRepeated.
C23_Original ==
  (FieldDone /\ res.data.IsOptional) =>
    /\ arg.field.shape = "singular"
    /\ arg.field.optional
    /\ arg.field.kind \in ScalarKinds \ {BytesT}
    /\ ~res.data.IsMessage
    /\ ~res.data.IsRepeated

\* C23: in every field record, however resolution ends, isOptional is true
\* exactly when the field is singular, carries the explicit optional keyword
\* and is not of kind bytes; so it is never true for bytes and never true
\* together with isRepeated or isMap, and it is true for an explicitly
\* optional message field.
C23_IsOptional ==
  FieldDone =>
    /\ res.data.IsOptional =
         (arg.field.shape = "singular" /\ arg.field.optional /\ arg.field.kind # BytesT)
    /\ res.data.IsOptional => ~res.data.IsRepeated /\ ~res.data.IsMap
    /\ (arg.field.optional /\ arg.field.kind = MessageT) =>
         res.data.IsOptional /\ res.data.IsMessage

\* an explicitly optional message field with message rule nil
C23_Witness ==
  /\ FieldDone
  /\ arg.field.optional
  /\ arg.field.kind = MessageT
  /\ arg.ann.hasCustom
  /\ arg.ann.custom.branch = MessageT
  /\ arg.ann.custom.Nil
  /\ res.outcome = "return"
  /\ res.data.IsOptional
  /\ res.data.IsMessage

\* a Go raw string literal: text between two backquotes that holds none
RawLiteral(v) ==
  /\ Len(v) >= 2
  /\ v[1] = Backquote
  /\ v[Len(v)] = Backquote
  /\ \A i \in 2..(Len(v) - 1) : v[i] # Backquote

\* a literal of Go: nil, a boolean, a number, the quoted placeholder, a raw
\* string, a byte slice converted from a raw string, or a composite literal
\* (T{} or &T{})
GoLiteral(v) ==
  \/ v \in {<<"nil">>, <<"true">>, <<"false">>, <<"\"REDACTED\"">>}
  \/ \E n \in 0..(MaxLit + 1) : v = Itoa(n)
  \/ RawLiteral(v)
  \/ /\ Len(v) >= 4
     /\ v[1] = "[]byte("
     /\ v[Len(v)] = ")"
     /\ RawLiteral(SubSeq(v, 2, Len(v) - 1))
  \/ Len(v) >= 2 /\ v[Len(v)] = "{}"

\* C24: every field decision returned with redact=true has a redaction value
\* that is a literal of Go, whatever the field and the content of the rule
\* are (the "-" of a message that is redacted by recursion, which is never
\* emitted, is let through).
C24_ValidLiteral ==
  (FieldDone /\ res.outcome = "return" /\ res.data.Redact) =>
    \/ GoLiteral(res.data.RedactionValue)
    \/ res.data.NestedEmbedCall /\ res.data.RedactionValue = <<"-">>

\* a string rule whose content is a single backquote
C24_BackquoteInput ==
  /\ FieldDone
  /\ arg.field.kind = StringT
  /\ arg.ann.hasCustom
  /\ arg.ann.custom.branch = StringT
  /\ arg.ann.custom.text = <<Backquote>>

\* C25: a failure of one message or service of a file affects only that
\* unit: every sibling message and service that resolves on its own still
\* has its decision in the record that the run of the file produces.
C25_SiblingsContinue ==
  (FileDone /\ ~arg.fileSkip) =>
    /\ \A j \in 1..Len(arg.messages) :
         processMessage(arg.messages[j], TRUE).outcome = "return" =>
           \E k \in 1..Len(res.data.Messages) :
             res.data.Messages[k] = processMessage(arg.messages[j], TRUE).data
    /\ \A i \in 1..Len(arg.services) :
         processService(arg.services[i][1], arg.services[i][2]).outcome = "return" =>
           \E k \in 1..Len(res.data.Services) :
             res.data.Services[k] =
               processService(arg.services[i][1], arg.services[i][2]).data

\* C26: RuleInformation classifies a rule by its populated branch: a branch
\* of one of the sixteen scalar and enum kinds gives that kind, no label and
\* the literal of the rule as value (a string between backquotes, bytes as
\* []byte( ) around the text between backquotes); the message branch gives
\* kind message and no value; the element branch gives label Repeated, the
\* kind left at 0 and no value.
C26_Classification ==
  RuleInformationDone =>
    /\ arg.branch \in ScalarKinds =>
         /\ Cardinality(ScalarKinds) = 16
         /\ res.outcome = "return"
         /\ res.data.ProtoType = arg.branch
         /\ res.data.ProtoLabel = NoProtoLabel
    /\ arg.branch \in NumericKinds =>
         FormatValue(res.data.RedactionValue) = Itoa(arg.num)
    /\ arg.branch = BoolT =>
         FormatValue(res.data.RedactionValue) = FormatBool(arg.flag)
    /\ arg.branch = StringT =>
         FormatValue(res.data.RedactionValue) = <<Backquote>> \o arg.text \o <<Backquote>>
    /\ arg.branch = BytesT =>
         FormatValue(res.data.RedactionValue) =
           <<"[]byte(", Backquote>> \o arg.text \o <<Backquote, ")">>
    /\ (arg.branch = MessageT /\ ~arg.subNil) =>
         /\ res.outcome = "return"
         /\ res.data.ProtoType = MessageT
         /\ res.data.ProtoLabel = NoProtoLabel
         /\ res.data.RedactionValue = NoValue
    /\ (arg.branch = "element" /\ ~arg.subNil) =>
         /\ res.outcome = "return"
         /\ res.data.ProtoType = NoProtoType
         /\ res.data.ProtoLabel = Repeated
         /\ res.data.RedactionValue = NoValue

\* a string rule with content, classified as kind string
C26_Witness ==
  /\ RuleInformationDone
  /\ arg.branch = StringT
  /\ arg.text = <<"a">>
  /\ res.data.ProtoType = StringT
  /\ res.data.RedactionValue.text = <<Backquote, "a", Backquote>>

\* C27: every record of a service's method list that is not marked skipped
\* is fully resolved, also when the run of the service ends in a failure: its
\* status code is the name of one of the gRPC codes 0..16 and its error
\* message is the inherited template with the names filled in, between
\* backquotes.  The status-code check that follows the append never fails:
\* a run that fails on a status code has appended no record for the method
\* it fails on.
C27_FullyResolved ==
  ServiceDone =>
    /\ \A i \in 1..Len(res.data.Methods) :
         ~res.data.Methods[i].Skip =>
           /\ \E c \in 0..Unauthenticated :
                res.data.Methods[i].StatusCode = CodeString(c)
           /\ res.data.Methods[i].ErrMessage =
                <<Backquote>> \o ExpectedErrMessage(arg.srv, arg.methods[i])
                  \o <<Backquote>>
    /\ (res.outcome = "fail" /\ res.data.present) =>
         /\ Len(res.data.Methods) < Len(arg.methods)
         /\ \/ validateMethod(arg.srv, arg.methods[Len(res.data.Methods) + 1]) # NoError
            \/ processMessage(arg.methods[Len(res.data.Methods) + 1].output, FALSE).outcome
                 # "return"

\* a list of two methods whose second sets the code 17: the run fails with
\* the resolved record of the first method alone in the list
C27_Witness ==
  /\ ServiceDone
  /\ Len(arg.methods) = 2
  /\ arg.methods[2].code.set
  /\ arg.methods[2].code.value = Unauthenticated + 1
  /\ res.outcome = "fail"
  /\ res.err.class = "InvalidStatusCode"
  /\ Len(res.data.Methods) = 1
  /\ ~res.data.Methods[1].Skip
  /\ res.data.Methods[1].StatusCode = <<"PermissionDenied">>

\* C28: skip comes before internal gating: the record of a method that is
\* skipped, by its own option or by its service's, has internal=false and an
\* empty status code and error message, also when the method or the service
\* is marked internal and sets a code and a message.
C28_SkipBeforeInternal ==
  ServiceDone =>
    \A i \in 1..Len(res.data.Methods) :
      (arg.methods[i].skip \/ arg.srv.skip) =>
        /\ res.data.Methods[i].Skip
        /\ ~res.data.Methods[i].Internal
        /\ res.data.Methods[i].StatusCode = <<>>
        /\ res.data.Methods[i].ErrMessage = <<>>

\* a skipped method that is marked internal with its own code and message,
\* in a service that is internal too
C28_Witness ==
  /\ ServiceDone
  /\ res.outcome = "return"
  /\ Len(res.data.Methods) = 1
  /\ arg.methods[1].skip
  /\ arg.methods[1].internal.set
  /\ arg.methods[1].internal.value
  /\ arg.methods[1].code.set
  /\ arg.methods[1].errMsg.set
  /\ arg.srv.internal
  /\ arg.srv.code.set
  /\ res.data.Methods[1].Skip
  /\ ~res.data.Methods[1].Internal

\* a message rule on a singular message field
MessageRuleOnMessage ==
  /\ FieldDone
  /\ arg.field.shape = "singular"
  /\ arg.field.kind = MessageT
  /\ arg.ann.hasCustom
  /\ arg.ann.custom.branch = MessageT

\* an element rule on a repeated or map field that sets empty or nested
ElementRuleWithOption ==
  /\ FieldDone
  /\ arg.field.shape \in {"repeated", "map"}
  /\ arg.ann.hasCustom
  /\ arg.ann.custom.branch = "element"
  /\ arg.ann.custom.Empty \/ arg.ann.custom.Nested

\* the precedence of a message rule: empty, then nil, then skip
MessagePrecedence ==
  MessageRuleOnMessage =>
    /\ res.outcome = "return"
    /\ arg.ann.custom.Empty =>
         /\ res.data.RedactionValue = <<"&", "pb.Profile", "{}">>
         /\ ~res.data.EmbedSkip
         /\ ~res.data.NestedEmbedCall
    /\ (~arg.ann.custom.Empty /\ arg.ann.custom.Nil) =>
         /\ res.data.RedactionValue = <<"nil">>
         /\ ~res.data.EmbedSkip
         /\ ~res.data.NestedEmbedCall
    /\ (~arg.ann.custom.Empty /\ ~arg.ann.custom.Nil /\ arg.ann.custom.Skip) =>
         /\ res.data.EmbedSkip
         /\ ~res.data.NestedEmbedCall

\* the result of the run is that of the same rule without its item rule
ItemIgnored ==
  /\ res.outcome = "return"
  /\ res = processFields(arg.field, [arg.ann EXCEPT !.custom.Item = AbsentItem])
  /\ arg.ann.custom.Empty => ~res.data.Iterate
  /\ (~arg.ann.custom.Empty /\ arg.ann.custom.Nested) =>
       /\ res.data.Iterate
       /\ res.data.RedactionValue = RedactionDefaults(arg.field.kind, FALSE)

\* C30 as stated: several options of a sub-rule set at once never raise an
\* error; a message rule decides by empty, then nil, then skip, and an
\* element rule by empty, then nested, then item, so that any item rule is
\* ignored when empty or nested is set.
C30_Original ==
  /\ MessagePrecedence
  /\ ElementRuleWithOption => ItemIgnored

\* C30: a message rule on a message field raises no error for any
\* combination of its options and decides by empty, then nil, then skip; an
\* element rule on a repeated or map field that sets empty or nested ignores
\* its item rule (also one of the wrong kind or without a branch) and decides
\* by empty, then nested, unless the item rule is itself an element rule:
\* then resolution fails with the nested-depth error whatever else is set.
C30_Precedence ==
  /\ MessagePrecedence
  /\ (ElementRuleWithOption /\ arg.ann.custom.Item.branch # "element") => ItemIgnored
  /\ (ElementRuleWithOption /\ arg.ann.custom.Item.branch = "element") =>
       /\ res.outcome = "fail"
       /\ res.err.class = "NestedDepthExceeded"
       /\ ~res.data.Iterate

\* a repeated int32 field whose element rule sets empty and nested and an
\* item rule of kind string: the empty slice, no iteration, no error
C30_Witness ==
  /\ ElementRuleWithOption
  /\ arg.field.shape = "repeated"
  /\ arg.field.kind = "int32"
  /\ arg.ann.custom.Empty
  /\ arg.ann.custom.Nested
  /\ arg.ann.custom.Item.branch = StringT
  /\ res.outcome = "return"
  /\ res.data.RedactionValue = <<"[]", "int32", "{}">>
  /\ ~res.data.Iterate

\* a message rule that sets empty, nil and skip together
C30_MessageWitness ==
  /\ MessageRuleOnMessage
  /\ arg.ann.custom.Empty
  /\ arg.ann.custom.Nil
  /\ arg.ann.custom.Skip
  /\ res.data.RedactionValue = <<"&", "pb.Profile", "{}">>
  /\ ~res.data.EmbedSkip

\* the import is one that importPaths gives an alias when it meets it with
\* the tables before: valid, not the file itself, with usable types, and
\* with a path that has no alias yet
Aliased(imp, self, before) ==
  /\ ~imp.isNil
  /\ validateImportPath(imp.path) = NoError
  /\ imp.path # self
  /\ imp.hasUsableTypes
  /\ validatePackageName(imp.packageName) = NoError
  /\ imp.path \notin DOMAIN before.path2Alias

\* alias is name itself when name is free in the table, else name followed
\* by the smallest positive integer that gives a free alias
SmallestFree(alias, name, alias2Path) ==
  /\ alias \notin DOMAIN alias2Path
  /\ \/ alias = name
     \/ \E n \in 1..(MaxImports + 6) :
          /\ alias = name \o Itoa(n)
          /\ name \in DOMAIN alias2Path
          /\ \A k \in 1..(n - 1) : (name \o Itoa(k)) \in DOMAIN alias2Path

C29_SuffixWitness ==
  /\ ImportsDone
  /\ res.outcome = "return"
  /\ Len(arg.imports) = 3
  /\ arg.imports[3].packageName = <<"user", "1">>
  /\ arg.imports[3].path \in DOMAIN res.data.path2Alias
  /\ res.data.path2Alias[arg.imports[3].path] = <<"user", "1", "1">>

====
